---- MODULE Spec2Model ----
(***************************************************************************)
(* Model of hassil/recognize.py: the template matcher (match_expression),  *)
(* the recognizer driver (recognize_all, recognize) and is_match.          *)
(*                                                                         *)
(* Python strings are sequences of one-character strings.  Python objects  *)
(* that the code shares and mutates (MatchEntity, UnmatchedEntity, the     *)
(* entity lists, MatchContext) live in an explicit heap and are referred   *)
(* to by their index, so that aliasing between contexts is part of the     *)
(* model.  Generators are evaluated in the order Python evaluates them:    *)
(* a GROUP drains its items eagerly (list comprehension), while the nodes  *)
(* above the first GROUP are resumed lazily, one yield per driver step.    *)
(***************************************************************************)
EXTENDS Integers, Sequences, FiniteSets, TLC

(***************************************************************************)
(* Characters and the regular expressions of the module                    *)
(***************************************************************************)

\* \s of WHITESPACE and NUMBER_START, str.strip(), str.isspace()
WHITESPACE_CHARS == {" ", "\t", "\n"}

\* PUNCTUATION = [.。,，?¿？؟!！;；:：]+ ; the non-ASCII members are named by code point
PUNCTUATION_CHARS ==
    {".", "u3002", ",", "uFF0C", "?", "u00BF", "uFF1F", "u061F",
     "!", "uFF01", ";", "uFF1B", ":", "uFF1A"}

DIGITS == <<"0", "1", "2", "3", "4", "5", "6", "7", "8", "9">>

MISSING_ENTITY == <<"<", "m", "i", "s", "s", "i", "n", "g", ">">>

None == [k |-> "none"]

IsSpace(ch) == ch \in WHITESPACE_CHARS

IsDigit(ch) == \E i \in 1..10 : DIGITS[i] = ch

DigitValue(ch) == (CHOOSE i \in 1..10 : DIGITS[i] = ch) - 1

\* s[i:] with 0 <= i
From(s, i) == IF i >= Len(s) THEN <<>> ELSE SubSeq(s, i + 1, Len(s))

\* s[:i] with 0 <= i
To(s, i) == IF i >= Len(s) THEN s ELSE SubSeq(s, 1, i)

RECURSIVE LeadingSpaces(_)
LeadingSpaces(s) ==
    IF s /= <<>> /\ IsSpace(Head(s)) THEN 1 + LeadingSpaces(Tail(s)) ELSE 0

RECURSIVE TrailingSpaces(_)
TrailingSpaces(s) ==
    IF s /= <<>> /\ IsSpace(s[Len(s)])
    THEN 1 + TrailingSpaces(SubSeq(s, 1, Len(s) - 1))
    ELSE 0

\* str.lstrip()
LStrip(s) == From(s, LeadingSpaces(s))

\* str.strip()
Strip(s) == LET l == LStrip(s) IN To(l, Len(l) - TrailingSpaces(l))

\* str.isspace(): non-empty and only whitespace
IsSpaceStr(s) == s /= <<>> /\ \A i \in 1..Len(s) : IsSpace(s[i])

NotSpace(ch) == ~IsSpace(ch)

NotPunct(ch) == ch \notin PUNCTUATION_CHARS

\* WHITESPACE.sub("", s)
RemoveWhitespace(s) == SelectSeq(s, NotSpace)

\* a substitution that leaves the punctuation in place
KeepPunctuation(s) == s

\* PUNCTUATION.sub("", s)
RemovePunctuation(s) == SelectSeq(s, NotPunct)

\* str.startswith
StartsWith(s, p) == Len(p) <= Len(s) /\ SubSeq(s, 1, Len(p)) = p

\* str.endswith(" ")
EndsWithSpace(s) == s /= <<>> /\ s[Len(s)] = " "

\* str.find(sub, start): the lowest 0-based index >= start where sub occurs, else -1
Find(s, sub, start) ==
    LET hits == {i \in start..(Len(s) - Len(sub)) : SubSeq(s, i + 1, i + Len(sub)) = sub}
    IN  IF hits = {} THEN -1 ELSE CHOOSE i \in hits : \A j \in hits : i <= j

\* str.split()[0]: the first whitespace-delimited token
RECURSIVE TokenLen(_)
TokenLen(s) ==
    IF s /= <<>> /\ ~IsSpace(Head(s)) THEN 1 + TokenLen(Tail(s)) ELSE 0

FirstToken(s) == LET l == LStrip(s) IN To(l, TokenLen(l))

RECURSIVE DigitRun(_)
DigitRun(s) ==
    IF s /= <<>> /\ IsDigit(Head(s)) THEN 1 + DigitRun(Tail(s)) ELSE 0

\* NUMBER_START = ^(\s*-?[0-9]+) : the length of group 1, or -1 when there is no match
NumberStartLen(s) ==
    LET ws   == LeadingSpaces(s)
        r1   == From(s, ws)
        sign == IF r1 /= <<>> /\ Head(r1) = "-" THEN 1 ELSE 0
        nd   == DigitRun(From(r1, sign))
    IN  IF nd = 0 THEN -1 ELSE ws + sign + nd

RECURSIVE DigitsValue(_)
DigitsValue(s) ==
    IF s = <<>> THEN 0
    ELSE 10 * DigitsValue(SubSeq(s, 1, Len(s) - 1)) + DigitValue(s[Len(s)])

\* int(number_text) for a text matched by NUMBER_START
ParseInt(s) ==
    LET r == LStrip(s)
    IN  IF Head(r) = "-" THEN 0 - DigitsValue(Tail(r)) ELSE DigitsValue(r)

\* the bounds of the range without its step
InPyRangeUnaligned(n, start, stop, step) == n >= start /\ n < stop + 1

\* word_number in range(start, stop + 1, step), for step >= 1
InPyRange(n, start, stop, step) ==
    n >= start /\ n < stop + 1 /\ (n - start) % step = 0

(***************************************************************************)
(* The heap: MatchEntity and UnmatchedEntity objects, the lists that hold  *)
(* them, and MatchContext objects, each referred to by its index           *)
(***************************************************************************)

EmptyHeap == [ents |-> <<>>, elists |-> <<>>, ums |-> <<>>, ulists |-> <<>>, ctxs |-> <<>>]

StrVal(s) == [k |-> "str", s |-> s]

IntVal(n) == [k |-> "int", n |-> n]

\* MatchEntity(name, value, text, is_wildcard=False, is_wildcard_open=True)
MatchEntity(name, value, text, is_wildcard) ==
    [name |-> name, value |-> value, text |-> text,
     is_wildcard |-> is_wildcard, is_wildcard_open |-> TRUE]

\* MatchEntity.text_clean: trimmed text with punctuation removed
text_clean(entity) == RemovePunctuation(Strip(entity.text))

\* UnmatchedTextEntity(name, text, is_open=True)
UnmatchedTextEntity(name, text, is_open) ==
    [kind |-> "text", name |-> name, text |-> text, is_open |-> is_open]

\* UnmatchedRangeEntity(name, value)
UnmatchedRangeEntity(name, value) ==
    [kind |-> "range", name |-> name, value |-> value]

\* a new list object holding ids; returns the heap and the list's id
NewEList(h, ids) ==
    [h |-> [h EXCEPT !.elists = Append(@, ids)], id |-> Len(h.elists) + 1]

NewUList(h, ids) ==
    [h |-> [h EXCEPT !.ulists = Append(@, ids)], id |-> Len(h.ulists) + 1]

\* context.entities + [entity]: a new list object with a new entity object at its end
EListPlus(h, base, entity) ==
    NewEList([h EXCEPT !.ents = Append(@, entity)], Append(base, Len(h.ents) + 1))

\* context.unmatched_entities + [unmatched]
UListPlus(h, base, unmatched) ==
    NewUList([h EXCEPT !.ums = Append(@, unmatched)], Append(base, Len(h.ums) + 1))

\* MatchContext.__post_init__: close the entities of the list the context is given
PostInit(h, el, ul, close_wildcards, close_unmatched) ==
    [h EXCEPT
        !.ents = IF close_wildcards
                 THEN [i \in 1..Len(h.ents) |->
                         IF \E j \in 1..Len(h.elists[el]) : h.elists[el][j] = i
                         THEN [h.ents[i] EXCEPT !.is_wildcard_open = FALSE]
                         ELSE h.ents[i]]
                 ELSE h.ents,
        !.ums  = IF close_unmatched
                 THEN [i \in 1..Len(h.ums) |->
                         IF /\ \E j \in 1..Len(h.ulists[ul]) : h.ulists[ul][j] = i
                            /\ h.ums[i].kind = "text"
                         THEN [h.ums[i] EXCEPT !.is_open = FALSE]
                         ELSE h.ums[i]]
                 ELSE h.ums]

\* MatchContext(text, entities, intent_context, is_start_of_word, unmatched_entities,
\*              close_wildcards, close_unmatched): a new context object
MatchContext(h, text, el, intent_context, is_start_of_word, ul, close_wildcards, close_unmatched) ==
    [h  |-> [PostInit(h, el, ul, close_wildcards, close_unmatched) EXCEPT
                !.ctxs = Append(@, [text |-> text, entities |-> el,
                                    intent_context |-> intent_context,
                                    is_start_of_word |-> is_start_of_word,
                                    unmatched_entities |-> ul])],
     id |-> Len(h.ctxs) + 1]

\* MatchContext.get_open_wildcard: the id of the last entity when it is an open wildcard, else 0
get_open_wildcard(h, context) ==
    LET l == h.elists[context.entities]
    IN  IF l = <<>> THEN 0
        ELSE IF h.ents[l[Len(l)]].is_wildcard /\ h.ents[l[Len(l)]].is_wildcard_open
             THEN l[Len(l)] ELSE 0

\* MatchContext.get_open_entity: the id of the last unmatched entity when it is an open text one
get_open_entity(h, context) ==
    LET l == h.ulists[context.unmatched_entities]
    IN  IF l = <<>> THEN 0
        ELSE IF h.ums[l[Len(l)]].kind = "text" /\ h.ums[l[Len(l)]].is_open
             THEN l[Len(l)] ELSE 0

\* is_match without its test of the remaining text
is_match_ignoring_text(h, context) ==
    /\ \A j \in 1..Len(h.elists[context.entities]) :
          LET e == h.ents[h.elists[context.entities][j]]
          IN  ~(e.is_wildcard /\ Strip(e.text) = <<>>)
    /\ \A j \in 1..Len(h.ulists[context.unmatched_entities]) :
          LET u == h.ums[h.ulists[context.unmatched_entities][j]]
          IN  ~(u.kind = "text" /\ Strip(u.text) = <<>>)

\* MatchContext.is_match
is_match(h, context) ==
    /\ Strip(RemovePunctuation(context.text)) = <<>>
    /\ \A j \in 1..Len(h.elists[context.entities]) :
          LET e == h.ents[h.elists[context.entities][j]]
          IN  ~(e.is_wildcard /\ Strip(e.text) = <<>>)
    /\ \A j \in 1..Len(h.ulists[context.unmatched_entities]) :
          LET u == h.ums[h.ulists[context.unmatched_entities][j]]
          IN  ~(u.kind = "text" /\ Strip(u.text) = <<>>)

\* dict merge {**a, **b}
MergeDict(a, b) ==
    [k \in (DOMAIN a) \cup (DOMAIN b) |-> IF k \in DOMAIN b THEN b[k] ELSE a[k]]

(***************************************************************************)
(* match_expression.  A call returns the heap after the call, the ids of   *)
(* the contexts it yields, in order, and the error it raised, if any.      *)
(* What a step computes is handed on as an argument of the operator that   *)
(* continues the call.                                                     *)
(***************************************************************************)

Yield(h, out) == [h |-> h, out |-> out, err |-> "none"]

\* a reference to an undefined name that yields nothing instead of raising
RaiseNothing(h, err) == [h |-> h, out |-> <<>>, err |-> "none"]

Raise(h, err) == [h |-> h, out |-> <<>>, err |-> err]

\* `yield c`, for a context c that was just constructed
YieldContext(c) == Yield(c.h, <<c.id>>)

\* a generator that yields what comes later first
ThenReversed(out, rest) ==
    IF rest.err /= "none" THEN rest ELSE Yield(rest.h, rest.out \o out)

\* the contexts already yielded, followed by what the rest of the generator does
Then(out, rest) ==
    IF rest.err /= "none" THEN rest ELSE Yield(rest.h, out \o rest.out)

\* MatchContext(entities=l, ...) for an entity list l that was just constructed
ContextWithEntities(l, text, intent_context, is_start_of_word, ul, close_wildcards, close_unmatched) ==
    MatchContext(l.h, text, l.id, intent_context, is_start_of_word, ul,
                 close_wildcards, close_unmatched)

\* MatchContext(unmatched_entities=u, ...) for an unmatched list u that was just constructed
ContextWithUnmatched(u, text, el, intent_context, is_start_of_word, close_wildcards, close_unmatched) ==
    MatchContext(u.h, text, el, intent_context, is_start_of_word, u.id,
                 close_wildcards, close_unmatched)

\* TextChunk.is_empty
is_empty(chunk) == chunk.text = <<>>

RECURSIVE match_expression(_, _, _, _)
RECURSIVE WildcardSplits(_, _, _, _, _, _, _, _)
RECURSIVE WildcardSplitsNext(_, _, _, _, _, _, _, _)
RECURSIVE MatchAlternative(_, _, _, _, _)
RECURSIVE MatchAlternativeNext(_, _, _, _, _)
RECURSIVE MatchGroupItem(_, _, _, _, _)
RECURSIVE MatchGroupItemNext(_, _, _, _, _)
RECURSIVE MatchGroup(_, _, _, _, _)
RECURSIVE MatchGroupNext(_, _, _, _)
RECURSIVE MatchTextValues(_, _, _, _, _, _)
RECURSIVE MatchTextValuesMatched(_, _, _, _, _, _)
RECURSIVE MatchTextValuesNext(_, _, _, _, _, _, _)
RECURSIVE MatchTextValuesReported(_, _, _, _, _, _, _)

\* match_expression(settings, c, expression) for a context c that was just constructed
MatchIn(c, settings, expression) == match_expression(c.h, settings, c.id, expression)

\* a split that captures nothing
wildcard_text_empty(context_text, start_idx) == <<>>

\* line 690: wildcard_text = context_text[:start_idx]
wildcard_text(context_text, start_idx) == To(context_text, start_idx)

\* lines 693-707: the context in which the wildcard is the closed entity wildcard_text
WildcardFork(h, cid, context_text, start_idx, wildcard) ==
    LET context == h.ctxs[cid]
        base    == h.elists[context.entities]
    IN  ContextWithEntities(
            EListPlus(h, SubSeq(base, 1, Len(base) - 1),
                      MatchEntity(h.ents[wildcard].name,
                                  StrVal(wildcard_text(context_text, start_idx)),
                                  wildcard_text(context_text, start_idx), FALSE)),
            From(context_text, start_idx), context.intent_context, TRUE,
            context.unmatched_entities, FALSE, FALSE)

\* lines 689-710, the while loop of the open-wildcard branch: one fork per occurrence
\* of chunk_text
WildcardSplits(h, settings, cid, chunk, context_text, chunk_text, start_idx, wildcard) ==
    IF start_idx <= 0 THEN Yield(h, <<>>)
    ELSE WildcardSplitsNext(
             MatchIn(WildcardFork(h, cid, context_text, start_idx, wildcard), settings, chunk),
             settings, cid, chunk, context_text, chunk_text, start_idx, wildcard)

\* line 710: after the fork r, the next occurrence
WildcardSplitsNext(r, settings, cid, chunk, context_text, chunk_text, start_idx, wildcard) ==
    IF r.err /= "none" THEN r
    ELSE Then(r.out,
              WildcardSplits(r.h, settings, cid, chunk, context_text, chunk_text,
                             Find(context_text, chunk_text, start_idx + 1), wildcard))

\* lines 630-792
MatchTextChunk(h, settings, cid, chunk) ==
    LET context == h.ctxs[cid]
        chunk_text ==
            IF settings.ignore_whitespace THEN RemoveWhitespace(chunk.text)
            ELSE IF context.is_start_of_word THEN LStrip(chunk.text) ELSE chunk.text
        context_text ==
            IF settings.ignore_whitespace THEN RemoveWhitespace(context.text)
            ELSE IF context.is_start_of_word THEN LStrip(context.text) ELSE context.text
        is_context_text_empty == Len(Strip(context_text)) = 0
        wildcard == get_open_wildcard(h, context)
        is_chunk_word == chunk_text /= <<>> /\ ~IsSpaceStr(chunk_text)
        \* remove punctuation and try again
        no_punct == RemovePunctuation(context.text)
        context_text2 ==
            IF ~StartsWith(no_punct, chunk_text) /\ context.is_start_of_word
            THEN LStrip(no_punct) ELSE no_punct
        skip_idx == Find(context_text2, chunk_text, 0)
        open_entity == get_open_entity(h, context)
        first == Find(context_text, chunk_text, 0)
    IN
    IF is_empty(chunk) THEN Yield(h, <<cid>>)
    ELSE IF wildcard /= 0 /\ Strip(h.ents[wildcard].text) = <<>> THEN
        IF Strip(chunk_text) = <<>> THEN
            \* skip space
            YieldContext(MatchContext(h, context_text, context.entities,
                                      context.intent_context, TRUE,
                                      context.unmatched_entities, FALSE, FALSE))
        ELSE
            WildcardSplits(h, settings, cid, chunk, context_text, chunk_text,
                           IF first = 0 THEN Find(context_text, chunk_text, 1) ELSE first,
                           wildcard)
    ELSE IF StartsWith(context_text, chunk_text) THEN
        \* successful match for chunk
        YieldContext(MatchContext(h, From(context_text, Len(chunk_text)), context.entities,
                                  context.intent_context, EndsWithSpace(chunk.text),
                                  context.unmatched_entities, is_chunk_word, is_chunk_word))
    ELSE IF is_context_text_empty /\ IsSpaceStr(chunk_text) THEN
        Yield(h, <<cid>>)
    ELSE IF StartsWith(context_text2, chunk_text) THEN
        YieldContext(MatchContext(h, From(context_text2, Len(chunk_text)), context.entities,
                                  context.intent_context, context.is_start_of_word,
                                  context.unmatched_entities, FALSE, FALSE))
    ELSE IF wildcard /= 0 THEN
        \* add to the wildcard by skipping ahead to the chunk text
        IF skip_idx < 0 THEN Yield(h, <<>>)
        ELSE IF h.ents[wildcard].text \o To(context_text2, skip_idx) = <<>>
        THEN Yield([h EXCEPT !.ents[wildcard].text = <<>>], <<>>)
        ELSE YieldContext(MatchContext(
                 [h EXCEPT !.ents[wildcard].text = @ \o To(context_text2, skip_idx),
                           !.ents[wildcard].value =
                               StrVal(h.ents[wildcard].text \o To(context_text2, skip_idx))],
                 From(context.text, skip_idx + Len(chunk_text)),
                 context.entities, context.intent_context, TRUE,
                 context.unmatched_entities, FALSE, FALSE))
    ELSE IF settings.allow_unmatched_entities /\ open_entity /= 0 THEN
        \* add to the most recent unmatched entity by skipping ahead
        IF skip_idx < 0 THEN Yield(h, <<>>)
        ELSE IF h.ums[open_entity].text \o To(context_text2, skip_idx) = <<>>
        THEN Yield([h EXCEPT !.ums[open_entity].text = <<>>], <<>>)
        ELSE YieldContext(MatchContext(
                 [h EXCEPT !.ums[open_entity].text = @ \o To(context_text2, skip_idx)],
                 From(context.text, skip_idx + Len(chunk_text)),
                 context.entities, context.intent_context, TRUE,
                 context.unmatched_entities, FALSE, FALSE))
    ELSE Yield(h, <<>>)

\* lines 796-799, ALTERNATIVE: the items from index i on, each against the same context
MatchAlternative(h, settings, cid, items, i) ==
    IF i > Len(items) THEN Yield(h, <<>>)
    ELSE MatchAlternativeNext(match_expression(h, settings, cid, items[i]),
                              settings, cid, items, i)

MatchAlternativeNext(r, settings, cid, items, i) ==
    IF r.err /= "none" THEN r
    ELSE Then(r.out, MatchAlternative(r.h, settings, cid, items, i + 1))

\* lines 807-813, one step of the GROUP fold: match item against each of
\* group_contexts[j..]
MatchGroupItem(h, settings, group_contexts, j, item) ==
    IF j > Len(group_contexts) THEN Yield(h, <<>>)
    ELSE MatchGroupItemNext(match_expression(h, settings, group_contexts[j], item),
                            settings, group_contexts, j, item)

MatchGroupItemNext(r, settings, group_contexts, j, item) ==
    IF r.err /= "none" THEN r
    ELSE Then(r.out, MatchGroupItem(r.h, settings, group_contexts, j + 1, item))

\* lines 801-818, GROUP: fold the items from index i on over the working list of contexts
MatchGroup(h, settings, group_contexts, items, i) ==
    IF i > Len(items) THEN Yield(h, group_contexts)
    ELSE MatchGroupNext(MatchGroupItem(h, settings, group_contexts, 1, items[i]),
                        settings, items, i)

\* lines 814-815: `if not group_contexts: break`
MatchGroupNext(r, settings, items, i) ==
    IF r.err /= "none" THEN r
    ELSE IF r.out = <<>> THEN Yield(r.h, <<>>)
    ELSE MatchGroup(r.h, settings, r.out, items, i + 1)

\* lines 849-880: the entity and context that a TextSlotList value's sub-match
\* value_context becomes
TextValueContext(h, cid, list_ref, slot_value, vid) ==
    LET context       == h.ctxs[cid]
        value_context == h.ctxs[vid]
        text == IF value_context.text /= <<>>
                THEN To(context.text, Len(context.text) - Len(value_context.text))
                ELSE context.text
    IN  ContextWithEntities(
            EListPlus(h, h.elists[context.entities],
                      MatchEntity(list_ref.slot_name, slot_value.value_out, text, FALSE)),
            value_context.text,
            IF DOMAIN slot_value.context /= {}
            THEN MergeDict(context.intent_context, slot_value.context)
            ELSE value_context.intent_context,
            context.is_start_of_word, context.unmatched_entities, FALSE, FALSE)

\* the yield of the context c, then the rest of the loop over the value's sub-matches
RECURSIVE TextValueContexts(_, _, _, _, _, _)
RECURSIVE TextValueContextsNext(_, _, _, _, _, _)
TextValueContexts(h, cid, list_ref, slot_value, vids, j) ==
    IF j > Len(vids) THEN Yield(h, <<>>)
    ELSE TextValueContextsNext(TextValueContext(h, cid, list_ref, slot_value, vids[j]),
                               cid, list_ref, slot_value, vids, j)

TextValueContextsNext(c, cid, list_ref, slot_value, vids, j) ==
    Then(<<c.id>>, TextValueContexts(c.h, cid, list_ref, slot_value, vids, j + 1))

\* lines 883-895 and 948-959, "Report mismatch" and "Report not a number": the context
\* with a new empty open UnmatchedTextEntity
MismatchContext(h, cid, slot_name) ==
    LET context == h.ctxs[cid]
    IN  ContextWithUnmatched(
            UListPlus(h, h.ulists[context.unmatched_entities],
                      UnmatchedTextEntity(slot_name, <<>>, TRUE)),
            context.text, context.entities, context.intent_context,
            context.is_start_of_word, TRUE, FALSE)

\* lines 833-847, TextSlotList: the values from index i on
MatchTextValues(h, settings, cid, list_ref, values, i) ==
    IF i > Len(values) THEN Yield(h, <<>>)
    ELSE MatchTextValuesMatched(
             MatchIn(MatchContext(h, h.ctxs[cid].text, h.ctxs[cid].entities,
                                  h.ctxs[cid].intent_context, h.ctxs[cid].is_start_of_word,
                                  h.ctxs[cid].unmatched_entities, FALSE, FALSE),
                     settings, values[i].text_in),
             settings, cid, list_ref, values, i)

\* lines 849-881: r is what the value's text_in yielded
MatchTextValuesMatched(r, settings, cid, list_ref, values, i) ==
    IF r.err /= "none" THEN r
    ELSE MatchTextValuesNext(r.out /= <<>>,
                             TextValueContexts(r.h, cid, list_ref, values[i], r.out, 1),
                             settings, cid, list_ref, values, i)

\* lines 883-895: the mismatch report of this value, then the next value
MatchTextValuesNext(has_matches, w, settings, cid, list_ref, values, i) ==
    IF (~has_matches) /\ settings.allow_unmatched_entities
    THEN MatchTextValuesReported(w.out, MismatchContext(w.h, cid, list_ref.slot_name),
                                 settings, cid, list_ref, values, i)
    ELSE Then(w.out, MatchTextValues(w.h, settings, cid, list_ref, values, i + 1))

\* line 895: the yield of the mismatch context mc, then the next value
MatchTextValuesReported(out, mc, settings, cid, list_ref, values, i) ==
    Then(out \o <<mc.id>>, MatchTextValues(mc.h, settings, cid, list_ref, values, i + 1))

\* a range test that accepts every number
in_range_any(range_list, word_number) == TRUE

\* lines 907-913: the unit-step comparison, else membership in range(start, stop + 1, step)
in_range(range_list, word_number) ==
    IF range_list.step = 1
    THEN range_list.start <= word_number /\ word_number <= range_list.stop
    ELSE InPyRange(word_number, range_list.start, range_list.stop, range_list.step)

\* lines 897-960
MatchRangeSlotList(h, settings, cid, list_ref, range_list) ==
    LET context == h.ctxs[cid]
        n_len   == NumberStartLen(context.text)
        word_number == ParseInt(To(context.text, n_len))
    IN
    IF context.text = <<>> THEN Yield(h, <<>>)
    ELSE IF n_len >= 0 THEN
        IF in_range(range_list, word_number) THEN
            YieldContext(ContextWithEntities(
                EListPlus(h, h.elists[context.entities],
                          MatchEntity(list_ref.slot_name, IntVal(word_number),
                                      FirstToken(context.text), FALSE)),
                From(context.text, n_len), context.intent_context,
                context.is_start_of_word, context.unmatched_entities, FALSE, FALSE))
        ELSE IF settings.allow_unmatched_entities THEN
            \* report out of range
            YieldContext(ContextWithUnmatched(
                UListPlus(h, h.ulists[context.unmatched_entities],
                          UnmatchedRangeEntity(list_ref.slot_name, word_number)),
                From(context.text, n_len), context.entities, context.intent_context,
                context.is_start_of_word, FALSE, FALSE))
        ELSE Yield(h, <<>>)
    ELSE IF settings.allow_unmatched_entities THEN
        \* report not a number
        YieldContext(MismatchContext(h, cid, list_ref.slot_name))
    ELSE Yield(h, <<>>)

\* lines 961-978
MatchWildcardSlotList(h, cid, list_ref) ==
    LET context == h.ctxs[cid]
    IN  IF context.text = <<>> THEN Yield(h, <<>>)
        ELSE YieldContext(ContextWithEntities(
                 EListPlus(h, h.elists[context.entities],
                           MatchEntity(list_ref.slot_name, StrVal(<<>>), <<>>, TRUE)),
                 context.text, context.intent_context,
                 context.is_start_of_word, context.unmatched_entities, FALSE, TRUE))

\* lines 822-980
MatchListReference(h, settings, cid, list_ref) ==
    IF list_ref.list_name \notin DOMAIN settings.slot_lists
    THEN Raise(h, "MissingListError")
    ELSE
      LET slot_list == settings.slot_lists[list_ref.list_name]
      IN  CASE slot_list.t = "text" ->
                 IF h.ctxs[cid].text /= <<>>
                 THEN MatchTextValues(h, settings, cid, list_ref, slot_list.values, 1)
                 ELSE Yield(h, <<>>)
            [] slot_list.t = "range" ->
                 MatchRangeSlotList(h, settings, cid, list_ref, slot_list)
            [] slot_list.t = "wildcard" ->
                 MatchWildcardSlotList(h, cid, list_ref)
            [] OTHER -> Raise(h, "ValueError")

\* lines 982-992
MatchRuleReference(h, settings, cid, rule_ref) ==
    IF rule_ref.rule_name \notin DOMAIN settings.expansion_rules
    THEN Raise(h, "MissingRuleError")
    ELSE match_expression(h, settings, cid, settings.expansion_rules[rule_ref.rule_name])

\* lines 626-994
match_expression(h, settings, cid, expression) ==
    CASE expression.t = "chunk" -> MatchTextChunk(h, settings, cid, expression)
      [] expression.t = "seq" ->
           IF expression.type = "alternative"
           THEN MatchAlternative(h, settings, cid, expression.items, 1)
           ELSE IF expression.type = "group"
           THEN IF expression.items /= <<>>
                THEN MatchGroup(h, settings, <<cid>>, expression.items, 1)
                ELSE Yield(h, <<>>)
           ELSE Raise(h, "ValueError")
      [] expression.t = "list" -> MatchListReference(h, settings, cid, expression)
      [] expression.t = "rule" -> MatchRuleReference(h, settings, cid, expression)
      [] OTHER -> Raise(h, "ValueError")

(***************************************************************************)
(* Generators above the first GROUP are resumed lazily by the driver.  A   *)
(* frame is a suspended generator; the stack holds the chain of `yield     *)
(* from` / for loops from the driver's call (bottom) to the generator that *)
(* runs (top).                                                             *)
(***************************************************************************)

ExprFrame(cid, expression) == [f |-> "expr", c |-> cid, e |-> expression]

AltFrame(cid, items, i) == [f |-> "alt", c |-> cid, items |-> items, i |-> i]

OutFrame(cs, j) == [f |-> "out", cs |-> cs, j |-> j]

TextFrame(cid, list_ref, values, i, started, has_matches) ==
    [f |-> "text", c |-> cid, ref |-> list_ref, values |-> values, i |-> i,
     started |-> started, has_matches |-> has_matches]

Pulled(h, stack, y, err) == [h |-> h, stack |-> stack, y |-> y, err |-> err]

\* a context yielded above frame k passes down through frames k..1 to the driver;
\* a TextSlotList loop turns it into the context with the slot's entity
RECURSIVE Deliver(_, _, _, _)
RECURSIVE DeliverContext(_, _, _)
Deliver(h, stack, k, cid) ==
    IF k = 0 THEN Pulled(h, stack, cid, "none")
    ELSE IF stack[k].f = "text" THEN
        DeliverContext(TextValueContext(h, stack[k].c, stack[k].ref,
                                        stack[k].values[stack[k].i], cid),
                       [stack EXCEPT ![k].has_matches = TRUE], k - 1)
    ELSE Deliver(h, stack, k - 1, cid)

\* Deliver for a context c that was just constructed
DeliverContext(c, stack, k) == Deliver(c.h, stack, k, c.id)

\* next(generator): run the suspended generators up to the next yield (y is the context's
\* id), to exhaustion (y = 0) or to a raised error
RECURSIVE Pull(_, _, _)
RECURSIVE PullTextValue(_, _, _, _)
RECURSIVE PullYielded(_, _, _, _)

\* lines 834-847: the value's text_in is matched against a copy c0 of the context
PullTextValue(c0, settings, below, top) ==
    Pull(c0.h, settings,
         below \o <<TextFrame(top.c, top.ref, top.values, top.i, TRUE, FALSE),
                    ExprFrame(c0.id, top.values[top.i].text_in)>>)

\* a generator that ran to its end before its first yield: r is what it yielded
PullYielded(r, settings, stack, below) ==
    IF r.err /= "none" THEN Pulled(r.h, stack, 0, r.err)
    ELSE Pull(r.h, settings, Append(below, OutFrame(r.out, 1)))

Pull(h, settings, stack) ==
    IF stack = <<>> THEN Pulled(h, stack, 0, "none")
    ELSE
      LET n     == Len(stack)
          top   == stack[n]
          below == SubSeq(stack, 1, n - 1)
          next  == TextFrame(top.c, top.ref, top.values, top.i + 1, FALSE, FALSE)
      IN
      CASE top.f = "out" ->
             IF top.j > Len(top.cs) THEN Pull(h, settings, below)
             ELSE Deliver(h, Append(below, OutFrame(top.cs, top.j + 1)), n - 1, top.cs[top.j])
        [] top.f = "alt" ->
             IF top.i > Len(top.items) THEN Pull(h, settings, below)
             ELSE Pull(h, settings,
                       below \o <<AltFrame(top.c, top.items, top.i + 1),
                                  ExprFrame(top.c, top.items[top.i])>>)
        [] top.f = "text" ->
             IF ~top.started THEN
                 IF top.i > Len(top.values) THEN Pull(h, settings, below)
                 ELSE PullTextValue(
                          MatchContext(h, h.ctxs[top.c].text, h.ctxs[top.c].entities,
                                       h.ctxs[top.c].intent_context,
                                       h.ctxs[top.c].is_start_of_word,
                                       h.ctxs[top.c].unmatched_entities, FALSE, FALSE),
                          settings, below, top)
             ELSE IF (~top.has_matches) /\ settings.allow_unmatched_entities
             THEN DeliverContext(MismatchContext(h, top.c, top.ref.slot_name),
                                 Append(below, next), n - 1)
             ELSE Pull(h, settings, Append(below, next))
        [] top.f = "expr" ->
             IF top.e.t = "seq" /\ top.e.type = "alternative"
             THEN Pull(h, settings, Append(below, AltFrame(top.c, top.e.items, 1)))
             ELSE IF top.e.t = "rule" /\ top.e.rule_name \in DOMAIN settings.expansion_rules
             THEN Pull(h, settings,
                       Append(below, ExprFrame(top.c, settings.expansion_rules[top.e.rule_name])))
             ELSE IF /\ top.e.t = "list"
                     /\ top.e.list_name \in DOMAIN settings.slot_lists
                     /\ settings.slot_lists[top.e.list_name].t = "text"
             THEN IF h.ctxs[top.c].text /= <<>>
                  THEN Pull(h, settings,
                            Append(below,
                                   TextFrame(top.c, top.e,
                                             settings.slot_lists[top.e.list_name].values,
                                             1, FALSE, FALSE)))
                  ELSE Pull(h, settings, below)
             ELSE
               \* a chunk, a GROUP, a range or wildcard reference, or a missing name:
               \* the generator runs to its end before its first yield
               PullYielded(match_expression(h, settings, top.c, top.e), settings, stack, below)

(***************************************************************************)
(* Context values: None, a string, an integer (a scalar that is not a      *)
(* collection) or a list of values (a non-string collection)               *)
(***************************************************************************)

CollVal(items) == [k |-> "coll", items |-> items]

\* isinstance(v, collections.abc.Collection): a str is a Collection too
IsCollection(v) == v.k \in {"str", "coll"}

\* isinstance(v, Collection) and not isinstance(v, str)
IsNonStrCollection(v) == v.k = "coll"

\* `a in v` raises TypeError when v is a str and a is not
InRaises(a, v) == v.k = "str" /\ a.k /= "str"

\* `a in v`: substring for a str, membership by == for a list
PyIn(a, v) ==
    IF v.k = "str" THEN Find(v.s, a.s, 0) >= 0
    ELSE \E j \in 1..Len(v.items) : v.items[j] = a

\* dict.get(key): the value or None
DictGet(d, key) == IF key \in DOMAIN d THEN d[key] ELSE None

(***************************************************************************)
(* recognize_all: the pre-filter on the caller's intent context            *)
(***************************************************************************)

\* lines 341-360: "skip", "pass" or "TypeError"
RECURSIVE PreFilterRequires(_, _, _)
PreFilterRequires(requires_context, intent_context, i) ==
    IF i > Len(requires_context) THEN "pass"
    ELSE
      LET required_key   == requires_context[i].k
          required_value == requires_context[i].v
          actual_value   == intent_context[required_key]
      IN  IF required_value = None \/ required_key \notin DOMAIN intent_context
          THEN PreFilterRequires(requires_context, intent_context, i + 1)
          ELSE IF IsCollection(required_value)
          THEN IF InRaises(actual_value, required_value) THEN "TypeError"
               ELSE IF ~PyIn(actual_value, required_value) THEN "skip"
               ELSE PreFilterRequires(requires_context, intent_context, i + 1)
          ELSE IF actual_value /= required_value THEN "skip"
          ELSE PreFilterRequires(requires_context, intent_context, i + 1)

\* lines 365-381: the loop runs over intent_data.requires_context.items()
RECURSIVE PreFilterExcludes(_, _, _)
PreFilterExcludes(requires_context, intent_context, i) ==
    IF i > Len(requires_context) THEN "pass"
    ELSE
      LET excluded_key   == requires_context[i].k
          excluded_value == requires_context[i].v
          actual_value   == intent_context[excluded_key]
      IN  IF excluded_key \notin DOMAIN intent_context
          THEN PreFilterExcludes(requires_context, intent_context, i + 1)
          ELSE IF IsCollection(excluded_value)
          THEN IF InRaises(actual_value, excluded_value) THEN "TypeError"
               ELSE IF PyIn(actual_value, excluded_value) THEN "skip"
               ELSE PreFilterExcludes(requires_context, intent_context, i + 1)
          ELSE IF actual_value = excluded_value THEN "skip"
          ELSE PreFilterExcludes(requires_context, intent_context, i + 1)

\* lines 334-384
PreFilter(intent_data, intent_context) ==
    IF DOMAIN intent_context = {} THEN "pass"
    ELSE IF /\ intent_data.requires_context /= <<>>
            /\ PreFilterRequires(intent_data.requires_context, intent_context, 1) /= "pass"
    THEN PreFilterRequires(intent_data.requires_context, intent_context, 1)
    ELSE IF intent_data.excludes_context /= <<>>
    THEN PreFilterExcludes(intent_data.requires_context, intent_context, 1)
    ELSE "pass"

(***************************************************************************)
(* recognize_all: the closing pass and the post-match context checks       *)
(***************************************************************************)

\* a driver without the closing pass
ClosingPassNone(h, cid) == h

\* lines 407-420: close an open unmatched entity or wildcard of the candidate
ClosingPass(h, cid) ==
    LET context    == h.ctxs[cid]
        final_text == Strip(context.text)
        unmatched_entity == get_open_entity(h, context)
        wildcard   == get_open_wildcard(h, context)
    IN  IF final_text = <<>> THEN h
        ELSE IF unmatched_entity /= 0
        THEN [h EXCEPT !.ums[unmatched_entity].text = @ \o final_text,
                       !.ums[unmatched_entity].is_open = FALSE,
                       !.ctxs[cid].text = <<>>]
        ELSE IF wildcard /= 0
        THEN [h EXCEPT !.ents[wildcard].text = @ \o final_text,
                       !.ents[wildcard].value = StrVal(h.ents[wildcard].text \o final_text),
                       !.ents[wildcard].is_wildcard_open = FALSE,
                       !.ctxs[cid].text = <<>>]
        ELSE h

\* an excludes check that never skips
ExcludesSkipNever(excludes_context, intent_context, i) == FALSE

\* lines 428-449
RECURSIVE ExcludesSkip(_, _, _)
ExcludesSkip(excludes_context, intent_context, i) ==
    IF i > Len(excludes_context) THEN FALSE
    ELSE
      LET context_value == excludes_context[i].v
          actual_value  == DictGet(intent_context, excludes_context[i].k)
      IN  IF actual_value = context_value THEN TRUE
          ELSE IF IsNonStrCollection(context_value) /\ PyIn(actual_value, context_value)
          THEN TRUE
          ELSE ExcludesSkip(excludes_context, intent_context, i + 1)

\* lines 461-472: the text of the first UnmatchedTextEntity of that name, else None
RECURSIVE UnmatchedTextOf(_, _, _, _)
UnmatchedTextOf(h, ul, key, j) ==
    IF j > Len(h.ulists[ul]) THEN None
    ELSE LET u == h.ums[h.ulists[ul][j]]
         IN  IF u.name = key /\ u.kind = "text" THEN StrVal(u.text)
             ELSE UnmatchedTextOf(h, ul, key, j + 1)

\* a test that finds no unmatched entity
has_unmatched_entity_none(h, ul, context_key) == FALSE

\* lines 493-499: an unmatched entity of any kind with that name
has_unmatched_entity(h, ul, context_key) ==
    \E j \in 1..Len(h.ulists[ul]) : h.ums[h.ulists[ul][j]].name = context_key

\* lines 452-514: the heap after the loop and whether the match is skipped
RECURSIVE RequiresCheck(_, _, _, _, _)
RequiresCheck(h, cid, requires_context, allow_unmatched_entities, i) ==
    IF i > Len(requires_context) THEN [h |-> h, skip_match |-> FALSE]
    ELSE
      LET context       == h.ctxs[cid]
          context_key   == requires_context[i].k
          context_value == requires_context[i].v
          found         == DictGet(context.intent_context, context_key)
          actual_value  == IF allow_unmatched_entities /\ found = None
                           THEN UnmatchedTextOf(h, context.unmatched_entities, context_key, 1)
                           ELSE found
          h1 == [h EXCEPT !.ums = Append(@, UnmatchedTextEntity(context_key, MISSING_ENTITY, FALSE)),
                          !.ulists[context.unmatched_entities] = Append(@, Len(h.ums) + 1)]
      IN  IF actual_value = context_value /\ context_value /= None
          THEN RequiresCheck(h, cid, requires_context, allow_unmatched_entities, i + 1)
          ELSE IF context_value = None /\ actual_value /= None
          THEN RequiresCheck(h, cid, requires_context, allow_unmatched_entities, i + 1)
          ELSE IF IsNonStrCollection(context_value) /\ PyIn(actual_value, context_value)
          THEN RequiresCheck(h, cid, requires_context, allow_unmatched_entities, i + 1)
          ELSE IF allow_unmatched_entities
          THEN RequiresCheck(IF has_unmatched_entity(h, context.unmatched_entities, context_key)
                             THEN h ELSE h1, cid, requires_context,
                             allow_unmatched_entities, i + 1)
          ELSE [h |-> h, skip_match |-> TRUE]

\* lines 426-518
VerifyContext(h, cid, intent_data, allow_unmatched_entities) ==
    IF /\ intent_data.excludes_context /= <<>>
       /\ ExcludesSkip(intent_data.excludes_context, h.ctxs[cid].intent_context, 1)
    THEN [h |-> h, skip_match |-> TRUE]
    ELSE IF intent_data.requires_context /= <<>>
    THEN RequiresCheck(h, cid, intent_data.requires_context, allow_unmatched_entities, 1)
    ELSE [h |-> h, skip_match |-> FALSE]

\* lines 520-528: append the fixed slots whose name is not among entity_names
RECURSIVE AddFixedEntities(_, _, _, _, _)
AddFixedEntities(h, el, slots, entity_names, i) ==
    IF i > Len(slots) THEN h
    ELSE IF slots[i].k \in entity_names
    THEN AddFixedEntities(h, el, slots, entity_names, i + 1)
    ELSE AddFixedEntities(
           [h EXCEPT !.ents = Append(@, MatchEntity(slots[i].k, slots[i].v, <<>>, FALSE)),
                     !.elists[el] = Append(@, Len(h.ents) + 1)],
           el, slots, entity_names, i + 1)

\* the entity objects of a list, the unmatched entity objects of a list
EntitiesOf(h, el) == [j \in 1..Len(h.elists[el]) |-> h.ents[h.elists[el][j]]]

UnmatchedOf(h, ul) == [j \in 1..Len(h.ulists[ul]) |-> h.ums[h.ulists[ul][j]]]

\* lines 535-550: RecognizeResult; the lists are the candidate's list objects, and
\* entities_list, unmatched_entities_list and text hold their contents when yielded
RecognizeResult(h, cid, intent_idx, data_idx, sentence_idx, response) ==
    LET context == h.ctxs[cid]
    IN  [intent |-> intent_idx, intent_data |-> data_idx, sentence |-> sentence_idx,
         response |-> response, context |-> context.intent_context,
         ctx |-> cid, el |-> context.entities, ul |-> context.unmatched_entities,
         text |-> context.text,
         entities_list |-> EntitiesOf(h, context.entities),
         unmatched_entities_list |-> UnmatchedOf(h, context.unmatched_entities)]

(***************************************************************************)
(* recognize: the consumer that returns at the first result                *)
(***************************************************************************)

Pending == [k |-> "pending"]

\* a consumer that keeps the last result instead of returning at the first one
recognize_yield_last(ret, result) == [k |-> "result", r |-> result]

\* lines 249-259: `for result in recognize_all(...): return result`
recognize_yield(ret, result) ==
    IF ret = Pending THEN [k |-> "result", r |-> result] ELSE ret

\* line 261: `return None` when the generator is exhausted
recognize_exhausted(ret) ==
    IF ret = Pending THEN [k |-> "returned_none"] ELSE ret

\* an exception of the generator passes through recognize
recognize_raised(ret, err) ==
    IF ret = Pending THEN [k |-> "raised", err |-> err] ELSE ret

(***************************************************************************)
(* The call's arguments and what recognize_all derives from them           *)
(***************************************************************************)

UPPER == <<"A", "B", "C", "D", "E", "F", "G", "H", "I", "J", "K", "L", "M",
           "N", "O", "P", "Q", "R", "S", "T", "U", "V", "W", "X", "Y", "Z">>

LOWER == <<"a", "b", "c", "d", "e", "f", "g", "h", "i", "j", "k", "l", "m",
           "n", "o", "p", "q", "r", "s", "t", "u", "v", "w", "x", "y", "z">>

\* util.normalize_text: the canonical form of a text (case folding)
normalize_text(s) ==
    [i \in 1..Len(s) |->
        IF \E j \in 1..26 : UPPER[j] = s[i]
        THEN LOWER[CHOOSE j \in 1..26 : UPPER[j] = s[i]]
        ELSE s[i]]

\* lines 288-303, for a call without skip words
PrepareText(text, ignore_whitespace) ==
    LET t == Strip(normalize_text(text))
    IN  IF ignore_whitespace THEN RemoveWhitespace(t) ELSE t \o <<" ">>

\* lines 305-328
MatchSettings(a) ==
    [slot_lists |-> IF a.slot_lists = None THEN a.intents.slot_lists
                    ELSE MergeDict(a.intents.slot_lists, a.slot_lists),
     expansion_rules |-> IF a.expansion_rules = None THEN a.intents.expansion_rules
                         ELSE MergeDict(a.intents.expansion_rules, a.expansion_rules),
     ignore_whitespace |-> a.intents.ignore_whitespace,
     allow_unmatched_entities |-> a.allow_unmatched_entities]

\* lines 386-394
LocalSettings(a, intent_data) ==
    [MatchSettings(a) EXCEPT
        !.expansion_rules = MergeDict(@, intent_data.expansion_rules)]

\* lines 320-321
IntentContext(a) == IF a.intent_context = None THEN <<>> ELSE a.intent_context

(***************************************************************************)
(* Expressions, slot lists and intents (expression.py, intents.py)         *)
(***************************************************************************)

TextChunk(text) == [t |-> "chunk", text |-> text]

Group(items) == [t |-> "seq", type |-> "group", items |-> items]

Alternative(items) == [t |-> "seq", type |-> "alternative", items |-> items]

ListReference(list_name, slot_name) ==
    [t |-> "list", list_name |-> list_name, slot_name |-> slot_name]

RuleReference(rule_name) == [t |-> "rule", rule_name |-> rule_name]

TextSlotValue(text_in, value_out, context) ==
    [text_in |-> text_in, value_out |-> value_out, context |-> context]

TextSlotList(values) == [t |-> "text", values |-> values]

RangeSlotList(start, stop, step) ==
    [t |-> "range", start |-> start, stop |-> stop, step |-> step]

WildcardSlotList == [t |-> "wildcard"]

\* a dict entry, for the dicts the code iterates in insertion order
KV(k, v) == [k |-> k, v |-> v]

IntentData(sentences, slots, requires_context, excludes_context, expansion_rules, response) ==
    [sentences |-> sentences, slots |-> slots, requires_context |-> requires_context,
     excludes_context |-> excludes_context, expansion_rules |-> expansion_rules,
     response |-> response]

Intent(name, data) == [name |-> name, data |-> data]

Intents(intents, slot_lists, expansion_rules, ignore_whitespace) ==
    [intents |-> intents, slot_lists |-> slot_lists, expansion_rules |-> expansion_rules,
     ignore_whitespace |-> ignore_whitespace]

\* the arguments of recognize / recognize_all (lines 225-234, 264-273)
Call(text, intents, slot_lists, expansion_rules, intent_context, allow_unmatched_entities) ==
    [text |-> text, intents |-> intents, slot_lists |-> slot_lists,
     expansion_rules |-> expansion_rules, intent_context |-> intent_context,
     default_response |-> StrVal(<<"d", "e", "f", "a", "u", "l", "t">>),
     allow_unmatched_entities |-> allow_unmatched_entities]

(***************************************************************************)
(* The calls of the model.  Texts are lower-case and hold no two           *)
(* adjacent whitespace characters.                                         *)
(***************************************************************************)

NoDict == <<>>

\* the strings over an alphabet of length at most n
RECURSIVE Strings(_, _)
Strings(alphabet, n) ==
    IF n = 0 THEN {<<>>}
    ELSE LET shorter == Strings(alphabet, n - 1)
         IN  shorter \cup {Append(s, ch) : s \in shorter, ch \in alphabet}

SingleSpaced(s) == \A i \in 1..(Len(s) - 1) : ~(IsSpace(s[i]) /\ IsSpace(s[i + 1]))

Trimmed(s) == s /= <<>> /\ ~IsSpace(s[1]) /\ ~IsSpace(s[Len(s)])

\* an intents bundle of one intent with one template
OneSentence(sentence, slot_lists, ignore_whitespace) ==
    Intents(<<Intent("I1", <<IntentData(<<sentence>>, <<>>, <<>>, <<>>, NoDict, None)>>)>>,
            slot_lists, NoDict, ignore_whitespace)

WildcardLists == [w |-> WildcardSlotList]

\* the templates of the calls; nolist and norule are not defined by any call
Templates ==
    [a_w_b |->          \* "a{w}b"
        Group(<<TextChunk(<<"a">>), ListReference("w", "w"), TextChunk(<<"b">>)>>),
     a_sp_w_sp_b |->    \* "a {w} b"
        Group(<<TextChunk(<<"a", " ">>), ListReference("w", "w"),
                TextChunk(<<" ", "b">>)>>),
     a_sp_w |->         \* "a {w}"
        Group(<<TextChunk(<<"a", " ">>), ListReference("w", "w")>>),
     a_or_a_sp |->      \* "(a|a )"
        Alternative(<<TextChunk(<<"a">>), TextChunk(<<"a", " ">>)>>),
     a_or_a_w |->       \* "(a|a {w})"
        Alternative(<<TextChunk(<<"a">>),
                      Group(<<TextChunk(<<"a", " ">>), ListReference("w", "w")>>)>>),
     a_b_or_a_w |->     \* "(a b|a {w})"
        Alternative(<<TextChunk(<<"a", " ", "b">>),
                      Group(<<TextChunk(<<"a", " ">>), ListReference("w", "w")>>)>>),
     nolist |->         \* "{nolist}"
        ListReference("nolist", "nolist"),
     a_sp_nolist |->    \* "a {nolist}"
        Group(<<TextChunk(<<"a", " ">>), ListReference("nolist", "nolist")>>),
     a_or_nolist |->    \* "(a|{nolist})"
        Alternative(<<TextChunk(<<"a">>), ListReference("nolist", "nolist")>>),
     a_sp_norule |->    \* "a <norule>"
        Group(<<TextChunk(<<"a", " ">>), RuleReference("norule")>>),
     norule_or_a |->    \* "(<norule>|a)"
        Alternative(<<RuleReference("norule"), TextChunk(<<"a">>)>>)]

\* two intents, the first with two templates
TwoIntents ==
    Intents(<<Intent("I1", <<IntentData(<<TextChunk(<<"a">>), Templates.a_sp_w>>, <<>>,
                                        <<>>, <<>>,
                                        NoDict, None)>>),
              Intent("I2", <<IntentData(<<Templates.a_or_a_sp>>, <<>>, <<>>, <<>>, NoDict,
                                        StrVal(<<"r", "2">>))>>)>>,
            WildcardLists, NoDict, FALSE)

TextBundles ==
    {OneSentence(s, WildcardLists, FALSE) :
        s \in {Templates.a_w_b, Templates.a_sp_w_sp_b, Templates.a_sp_w,
               Templates.a_or_a_sp, Templates.a_or_a_w, Templates.nolist,
               Templates.a_sp_nolist, Templates.a_or_nolist, Templates.a_sp_norule,
               Templates.norule_or_a}}
    \cup {OneSentence(Templates.a_sp_w_sp_b, WildcardLists, TRUE), TwoIntents}

MaxLen == 3

TextCalls ==
    {Call(t, b, None, None, None, tol) :
        t \in {s \in Strings({"a", "b", " ", "."}, MaxLen) : SingleSpaced(s)},
        b \in TextBundles, tol \in BOOLEAN}

\* inputs "a <t> b" for the template "a {w} b"
MaxWild == 3

WildcardTexts == {t \in Strings({"a", "b", " "}, MaxWild) : SingleSpaced(t) /\ Trimmed(t)}

WildcardIntents == OneSentence(Templates.a_sp_w_sp_b, WildcardLists, FALSE)

WildcardCalls ==
    {Call(<<"a", " ">> \o t \o <<" ", "b">>, WildcardIntents, None, None, None, tol) :
        t \in WildcardTexts, tol \in BOOLEAN}

\* inputs "a <t>" for the template "a {w}", whose last node is the wildcard
TrailingIntents == OneSentence(Templates.a_sp_w, WildcardLists, FALSE)

TrailingCalls ==
    {Call(<<"a", " ">> \o t, TrailingIntents, None, None, None, tol) :
        t \in WildcardTexts, tol \in BOOLEAN}

\* intent data with fixed slots: slot "w" is also captured by the templates with {w},
\* slot "d" never is
FixedSlots ==
    {<<KV("w", StrVal(<<"f">>))>>, <<KV("d", StrVal(<<"f">>))>>,
     <<KV("d", IntVal(1)), KV("w", StrVal(<<"f">>))>>}

FixedIntents(sentence, slots) ==
    Intents(<<Intent("I1", <<IntentData(<<sentence>>, slots, <<>>, <<>>, NoDict, None)>>)>>,
            WildcardLists, NoDict, FALSE)

FixedCalls ==
    {Call(t, FixedIntents(s, f), None, None, None, tol) :
        t \in {<<"a">>, <<"a", " ", "b">>, <<"a", " ", "a">>},
        s \in {Templates.a_sp_w, Templates.a_or_a_sp, Templates.a_b_or_a_w},
        f \in FixedSlots, tol \in BOOLEAN}

\* a text list whose two values both match "a", and a wildcard list
OrderLists ==
    [x |-> TextSlotList(<<TextSlotValue(TextChunk(<<"a">>), IntVal(1), NoDict),
                          TextSlotValue(TextChunk(<<"a">>), IntVal(2), NoDict)>>),
     w |-> WildcardSlotList]

\* "({x:p}|{x:q})", "{x:p} {x:q}" and "{w} b[ b]"
OrderTemplates ==
    [alternative |-> Alternative(<<ListReference("x", "p"), ListReference("x", "q")>>),
     group |-> Group(<<ListReference("x", "p"), TextChunk(<<" ">>),
                       ListReference("x", "q")>>),
     splits |-> Group(<<ListReference("w", "w"), TextChunk(<<" ", "b">>),
                        Alternative(<<TextChunk(<<>>), TextChunk(<<" ", "b">>)>>)>>)]

\* bundles of one template, and a bundle of two intents whose first has two intent data
OrderBundles ==
    {OneSentence(OrderTemplates[n], OrderLists, FALSE) : n \in DOMAIN OrderTemplates}
    \cup {Intents(<<Intent("I1", <<IntentData(<<OrderTemplates.alternative,
                                                OrderTemplates.group>>,
                                              <<>>, <<>>, <<>>, NoDict, None),
                                   IntentData(<<OrderTemplates.alternative>>,
                                              <<>>, <<>>, <<>>, NoDict, None)>>),
                     Intent("I2", <<IntentData(<<TextChunk(<<"a">>),
                                                 OrderTemplates.alternative>>,
                                               <<>>, <<>>, <<>>, NoDict, None)>>)>>,
                   OrderLists, NoDict, FALSE)}

OrderCalls ==
    {Call(t, b, None, None, None, tol) :
        t \in {<<"a">>, <<".", "a">>, <<"a", " ", "a">>, <<"a", " ", "b">>,
               <<"a", " ", "b", " ", "b">>},
        b \in OrderBundles, tol \in BOOLEAN}

\* the templates that are an empty alternative: "", "()" and "(|)"
EmptyTemplates ==
    {TextChunk(<<>>), Alternative(<<TextChunk(<<>>)>>),
     Alternative(<<TextChunk(<<>>), TextChunk(<<>>)>>)}

EmptyCalls ==
    {Call(t, OneSentence(s, NoDict, FALSE), None, None, None, tol) :
        t \in {u \in Strings({"a", " ", "."}, MaxLen) : SingleSpaced(u)},
        s \in EmptyTemplates, tol \in BOOLEAN}

\* "{w}[{t:name}]": a wildcard followed by an optional reference to a text list
OptionalIntents ==
    OneSentence(Group(<<ListReference("w", "w"),
                        Alternative(<<ListReference("t", "name"), TextChunk(<<>>)>>)>>),
                [w |-> WildcardSlotList,
                 t |-> TextSlotList(<<TextSlotValue(TextChunk(<<"a">>), IntVal(1),
                                                    NoDict)>>)],
                FALSE)

OptionalCalls ==
    {Call(t, OptionalIntents, None, None, None, tol) :
        t \in {<<"a">>, <<"b">>, <<"b", " ", "a">>}, tol \in BOOLEAN}

\* "{w}{v} b", "<r> b" with the rule r = "{w}{v}", and "{w}{v}": two adjacent wildcards,
\* before a literal that may occur several times in the text or at its very start
AdjacentCalls ==
    {Call(t, Intents(<<Intent("I1", <<IntentData(<<s>>, <<>>, <<>>, <<>>, NoDict, None)>>)>>,
                     [w |-> WildcardSlotList, v |-> WildcardSlotList],
                     [r |-> Group(<<ListReference("w", "w"), ListReference("v", "v")>>)],
                     FALSE),
          None, None, None, tol) :
        t \in {<<"b">>, <<"a", " ", "b">>, <<"b", " ", "b", " ", "b">>,
               <<"a", " ", "b", " ", "a", " ", "b">>},
        s \in {Group(<<ListReference("w", "w"), ListReference("v", "v"),
                       TextChunk(<<" ", "b">>)>>),
               Group(<<RuleReference("r"), TextChunk(<<" ", "b">>)>>),
               Group(<<ListReference("w", "w"), ListReference("v", "v")>>)},
        tol \in BOOLEAN}

\* the words of the templates and texts below
Words ==
    [play |-> <<"p", "l", "a", "y", " ">>,
     on |-> <<" ", "o", "n", " ">>,
     hey_jude |-> <<"h", "e", "y", " ", "j", "u", "d", "e">>,
     living_room |-> <<"l", "i", "v", "i", "n", "g", " ", "r", "o", "o", "m">>,
     set |-> <<"s", "e", "t", " ">>,
     to |-> <<" ", "t", "o", " ">>,
     kitchen_light |-> <<"k", "i", "t", "c", "h", "e", "n", " ", "l", "i", "g", "h", "t">>,
     kitchen |-> <<"k", "i", "t", "c", "h", "e", "n">>,
     bedroom |-> <<"b", "e", "d", "r", "o", "o", "m">>,
     away |-> <<"a", "w", "a", "y">>]

\* "play {song} on {device}" on "play hey jude on living room"
PlayIntents ==
    OneSentence(Group(<<TextChunk(Words.play), ListReference("song", "song"),
                        TextChunk(Words.on), ListReference("device", "device")>>),
                [song |-> WildcardSlotList,
                 device |-> TextSlotList(<<TextSlotValue(TextChunk(Words.living_room),
                                                         StrVal(Words.living_room), NoDict)>>)],
                FALSE)

PlayCalls ==
    {Call(Words.play \o Words.hey_jude \o Words.on \o Words.living_room, PlayIntents, None, None, None, tol) :
        tol \in BOOLEAN}

\* "set {name} to {brightness}" with brightness in 0..100
SetIntents ==
    OneSentence(Group(<<TextChunk(Words.set), ListReference("name", "name"),
                        TextChunk(Words.to), ListReference("brightness", "brightness")>>),
                [name |-> TextSlotList(<<TextSlotValue(TextChunk(Words.kitchen_light),
                                                       StrVal(Words.kitchen_light), NoDict)>>),
                 brightness |-> RangeSlotList(0, 100, 1)],
                FALSE)

SetText(number) == Words.set \o Words.kitchen_light \o Words.to \o number

SetCalls ==
    {Call(SetText(n), SetIntents, None, None, None, tol) :
        n \in {<<"5", "0">>, <<"1", "0", "0">>, <<"1", "5", "0">>, <<"-", "5">>},
        tol \in BOOLEAN}

\* a text list whose first value sets the area, referred to as slot "name"
AreaLists ==
    [t |-> TextSlotList(<<TextSlotValue(TextChunk(<<"a">>), StrVal(<<"o", "1">>),
                                        [area |-> StrVal(Words.kitchen)]),
                          TextSlotValue(TextChunk(<<"b">>), StrVal(<<"o", "2">>), NoDict)>>)]

RequiresContexts ==
    {<<>>,
     <<KV("area", StrVal(Words.kitchen))>>,
     <<KV("area", None)>>,
     <<KV("area", CollVal(<<StrVal(Words.kitchen), StrVal(Words.bedroom)>>))>>,
     <<KV("name", StrVal(<<"c">>))>>,
     <<KV("area", StrVal(Words.kitchen)), KV("name", None)>>}

ExcludesContexts ==
    {<<>>,
     <<KV("area", StrVal(Words.kitchen))>>,
     <<KV("area", CollVal(<<StrVal(Words.kitchen)>>))>>,
     <<KV("mode", StrVal(Words.away))>>}

IntentContexts ==
    {None, NoDict, [area |-> StrVal(Words.kitchen)], [area |-> StrVal(Words.bedroom)],
     [area |-> StrVal(<<"k", "i", "t">>)], [mode |-> StrVal(Words.away)], [area |-> IntVal(5)]}

ContextIntents(requires_context, excludes_context) ==
    Intents(<<Intent("I1", <<IntentData(<<ListReference("t", "name")>>, <<>>,
                                        requires_context, excludes_context, NoDict, None)>>)>>,
            AreaLists, NoDict, FALSE)

ContextCalls ==
    {Call(t, ContextIntents(r, x), None, None, c, tol) :
        t \in {<<"a">>, <<"b">>, <<"c">>}, r \in RequiresContexts, x \in ExcludesContexts,
        c \in IntentContexts, tol \in BOOLEAN}

Calls ==
    TextCalls \cup WildcardCalls \cup TrailingCalls \cup FixedCalls \cup OrderCalls
        \cup EmptyCalls \cup OptionalCalls \cup AdjacentCalls \cup PlayCalls
        \cup SetCalls \cup ContextCalls

\* direct calls of match_expression on a reference to a range list
MaxNum == 3

RangeLists == {RangeSlotList(0, 100, 1), RangeSlotList(1, 20, 5), RangeSlotList(-5, 5, 2)}

MatchCalls ==
    {[settings |-> [slot_lists |-> [r |-> range_list], expansion_rules |-> NoDict,
                    ignore_whitespace |-> FALSE, allow_unmatched_entities |-> tol],
      text |-> t, expression |-> ListReference("r", "brightness")] :
        range_list \in RangeLists, t \in Strings({"0", "1", "5", "-", " ", "%"}, MaxNum),
        tol \in BOOLEAN}

\* the calls of the function is_match: its sentence is the one sentence of the bundle,
\* its slot lists, expansion rules and flags are those of the call
IsMatchCalls ==
    {a \in TextCalls \cup TrailingCalls \cup PlayCalls \cup SetCalls :
        /\ Len(a.intents.intents) = 1
        /\ Len(a.intents.intents[1].data) = 1
        /\ Len(a.intents.intents[1].data[1].sentences) = 1}

\* MatchContext(text=text): a context with fresh, empty lists
InitialContext(heap, context_text, intent_context) ==
    MatchContext(NewUList(NewEList(heap, <<>>).h, <<>>).h, context_text,
                 Len(heap.elists) + 1, intent_context, TRUE, Len(heap.ulists) + 1,
                 FALSE, FALSE)

(***************************************************************************)
(* The state machine: one recognize_all generator, consumed to its end,    *)
(* with recognize as the consumer that stops at the first result; or one   *)
(* direct call of match_expression; or one call of the function is_match,  *)
(* after which the caller asks recognize_all about the same sentence.  A   *)
(* strict call that has ended may be repeated in tolerant mode.            *)
(***************************************************************************)

VARIABLES
    args,       \* the call's arguments
    pc,         \* where the generator stands
    text,       \* the prepared input text
    ii,         \* index of the intent of the outer loop
    di,         \* index of the intent_data
    si,         \* index of the sentence
    h,          \* the heap
    stack,      \* the suspended generators of match_expression
    cand,       \* maybe_match_context: id of the context being examined
    results,    \* the results yielded so far
    ret,        \* what recognize returns for the same arguments
    err,        \* the exception that ended the call, or "none"
    yielded,    \* the contexts a direct call of match_expression yielded
    found,      \* what the function is_match returned for the call's one sentence
    strict      \* the results of the same call in strict mode, once it is repeated

vars ==
    <<args, pc, text, ii, di, si, h, stack, cand, results, ret, err, yielded, found,
      strict>>

Init ==
    /\ \/ /\ args \in Calls
          /\ pc = "start"
          /\ text = <<>>
          /\ h = EmptyHeap
          /\ cand = 0
       \/ /\ args \in IsMatchCalls
          /\ pc = "is_match"
          /\ text = <<>>
          /\ h = EmptyHeap
          /\ cand = 0
       \/ /\ args \in MatchCalls
          /\ pc = "match"
          /\ text = args.text
          /\ h = InitialContext(EmptyHeap, args.text, NoDict).h
          /\ cand = InitialContext(EmptyHeap, args.text, NoDict).id
    /\ ii = 1
    /\ di = 1
    /\ si = 1
    /\ stack = <<>>
    /\ results = <<>>
    /\ ret = Pending
    /\ err = "none"
    /\ yielded = <<>>
    /\ found = Pending
    /\ strict = Pending

CurrentData == args.intents.intents[ii].data[di]

\* lines 288-328: prepare the text and the settings
Begin ==
    /\ pc = "start"
    /\ text' = PrepareText(args.text, args.intents.ignore_whitespace)
    /\ pc' = "data"
    /\ UNCHANGED <<args, ii, di, si, h, stack, cand, results, ret, err, yielded, found, strict>>

\* lines 334-384: what the loop does with the outcome of the pre-filter
Filtered(pre) ==
    IF pre = "TypeError"
    THEN /\ pc' = "error"
         /\ err' = pre
         /\ ret' = recognize_raised(ret, pre)
         /\ UNCHANGED <<ii, di, si>>
    ELSE IF pre = "skip"
    THEN /\ di' = di + 1
         /\ UNCHANGED <<pc, ii, si, ret, err>>
    ELSE /\ pc' = "sentence"
         /\ si' = 1
         /\ UNCHANGED <<ii, di, ret, err>>

\* lines 332-384: the loops over intents and intent data, and the pre-filter
NextIntentData ==
    /\ pc = "data"
    /\ IF ii > Len(args.intents.intents)
       THEN /\ pc' = "done"
            /\ ret' = recognize_exhausted(ret)
            /\ UNCHANGED <<ii, di, si, err>>
       ELSE IF di > Len(args.intents.intents[ii].data)
       THEN /\ ii' = ii + 1
            /\ di' = 1
            /\ UNCHANGED <<pc, si, ret, err>>
       ELSE Filtered(PreFilter(CurrentData, IntentContext(args)))
    /\ UNCHANGED <<args, text, h, stack, cand, results, yielded, found, strict>>

\* lines 402-405: match_expression(settings, c, sentence) creates the generator
Started(c) ==
    /\ h' = c.h
    /\ stack' = <<ExprFrame(c.id, CurrentData.sentences[si])>>

\* lines 397-405: the initial context of a sentence and its generator
StartSentence ==
    /\ pc = "sentence"
    /\ IF si > Len(CurrentData.sentences)
       THEN /\ pc' = "data"
            /\ di' = di + 1
            /\ UNCHANGED <<h, stack>>
       ELSE /\ Started(InitialContext(h, text, IntentContext(args)))
            /\ pc' = "pull"
            /\ UNCHANGED di
    /\ UNCHANGED <<args, text, ii, si, cand, results, ret, err, yielded, found, strict>>

\* line 406: what the for loop does with the outcome p of next(generator)
Resumed(p) ==
    /\ h' = p.h
    /\ stack' = p.stack
    /\ IF p.err /= "none"
       THEN /\ pc' = "error"
            /\ err' = p.err
            /\ ret' = recognize_raised(ret, p.err)
            /\ UNCHANGED <<si, cand>>
       ELSE IF p.y = 0
       THEN /\ pc' = "sentence"
            /\ si' = si + 1
            /\ UNCHANGED <<cand, ret, err>>
       ELSE /\ pc' = "close"
            /\ cand' = p.y
            /\ UNCHANGED <<si, ret, err>>

\* line 406: the next context of the generator, its end, or its exception
NextCandidate ==
    /\ pc = "pull"
    /\ Resumed(Pull(h, LocalSettings(args, CurrentData), stack))
    /\ UNCHANGED <<args, text, ii, di, results, yielded, found, strict>>

\* lines 407-424: the closing pass, then `if not maybe_match_context.is_match: continue`
CloseCandidate ==
    /\ pc = "close"
    /\ h' = ClosingPass(h, cand)
    /\ pc' = IF is_match(h', h'.ctxs[cand]) THEN "verify" ELSE "pull"
    /\ UNCHANGED <<args, text, ii, di, si, stack, cand, results, ret, err, yielded, found, strict>>

\* lines 449, 516-518: `if skip_match: continue`
Verified(v) ==
    /\ h' = v.h
    /\ pc' = IF v.skip_match THEN "pull" ELSE "emit"

\* lines 426-518: the excludes and requires checks
VerifyCandidate ==
    /\ pc = "verify"
    /\ Verified(VerifyContext(h, cand, CurrentData, args.allow_unmatched_entities))
    /\ UNCHANGED <<args, text, ii, di, si, stack, cand, results, ret, err, yielded, found, strict>>

\* lines 520-550: the fixed entities and the yield of the result
EmitResult ==
    /\ pc = "emit"
    /\ h' = AddFixedEntities(h, h.ctxs[cand].entities, CurrentData.slots,
                             {h.ents[h.elists[h.ctxs[cand].entities][j]].name :
                                 j \in 1..Len(h.elists[h.ctxs[cand].entities])}, 1)
    /\ results' = Append(results,
                         RecognizeResult(h', cand, ii, di, si,
                                         IF CurrentData.response /= None
                                         THEN CurrentData.response
                                         ELSE args.default_response))
    /\ ret' = recognize_yield(ret, results'[Len(results')])
    /\ pc' = "pull"
    /\ UNCHANGED <<args, text, ii, di, si, stack, cand, err, yielded, found, strict>>

\* list(match_expression(...)): the contexts yielded, or the exception
Consumed(r) ==
    /\ h' = r.h
    /\ yielded' = r.out
    /\ err' = r.err

\* match_expression(settings, context, expression), consumed to its end
CallMatchExpression ==
    /\ pc = "match"
    /\ Consumed(match_expression(h, args.settings, cand, args.expression))
    /\ pc' = "matched"
    /\ UNCHANGED <<args, text, ii, di, si, stack, cand, results, ret, found, strict>>

\* lines 565-592: the function is_match prepares the text as recognize_all does, and
\* creates the settings, the context and the generator
IsMatchBegin ==
    /\ pc = "is_match"
    /\ text' = PrepareText(args.text, args.intents.ignore_whitespace)
    /\ Started(InitialContext(h, text', NoDict))
    /\ pc' = "is_match_pull"
    /\ UNCHANGED <<args, ii, di, si, cand, results, ret, err, yielded, found, strict>>

\* lines 597-601: what the loop of the function is_match does with the outcome p of
\* next(generator): it returns the first context whose is_match property holds, or
\* None at the end; the caller then asks recognize_all about the same sentence
IsMatchResumed(p) ==
    IF p.err /= "none"
    THEN /\ pc' = "is_match_error"
         /\ err' = p.err
         /\ h' = p.h
         /\ stack' = p.stack
         /\ UNCHANGED found
    ELSE IF p.y = 0
    THEN /\ found' = None
         /\ pc' = "start"
         /\ h' = EmptyHeap
         /\ stack' = <<>>
         /\ UNCHANGED err
    ELSE IF is_match(p.h, p.h.ctxs[p.y])
    THEN /\ found' = [text |-> p.h.ctxs[p.y].text,
                      entities |-> EntitiesOf(p.h, p.h.ctxs[p.y].entities),
                      unmatched_entities |->
                          UnmatchedOf(p.h, p.h.ctxs[p.y].unmatched_entities)]
         /\ pc' = "start"
         /\ h' = EmptyHeap
         /\ stack' = <<>>
         /\ UNCHANGED err
    ELSE /\ h' = p.h
         /\ stack' = p.stack
         /\ UNCHANGED <<pc, err, found, strict>>

\* lines 597-598: `for maybe_match_context in match_expression(...)`
IsMatchNext ==
    /\ pc = "is_match_pull"
    /\ IsMatchResumed(Pull(h, LocalSettings(args, CurrentData), stack))
    /\ UNCHANGED <<args, text, ii, di, si, cand, results, ret, yielded, strict>>

\* the caller repeats a strict call that has ended, with allow_unmatched_entities=True
CallTolerant ==
    /\ pc = "done"
    /\ ~args.allow_unmatched_entities
    /\ found = Pending
    /\ strict = Pending
    /\ strict' = [k |-> "ended", results |-> results]
    /\ args' = [args EXCEPT !.allow_unmatched_entities = TRUE]
    /\ pc' = "start"
    /\ text' = <<>>
    /\ ii' = 1
    /\ di' = 1
    /\ si' = 1
    /\ h' = EmptyHeap
    /\ stack' = <<>>
    /\ cand' = 0
    /\ results' = <<>>
    /\ ret' = Pending
    /\ UNCHANGED <<err, yielded, found>>

Next ==
    \/ Begin
    \/ NextIntentData
    \/ StartSentence
    \/ NextCandidate
    \/ CloseCandidate
    \/ VerifyCandidate
    \/ EmitResult
    \/ CallMatchExpression
    \/ IsMatchBegin
    \/ IsMatchNext
    \/ CallTolerant

Spec == Init /\ [][Next]_vars

(***************************************************************************)
(* Properties of recognize and recognize_all                               *)
(***************************************************************************)

\* the intent data that a result was yielded for
DataOf(result) == args.intents.intents[result.intent].data[result.intent_data]

\* C1: recognize returns exactly the first result that recognize_all yields for the same
\* arguments, returns None if and only if recognize_all ends without a result, and lets
\* an exception raised before the first result pass through.
C1_RecognizeReturnsFirst ==
    /\ results /= <<>> => ret = [k |-> "result", r |-> results[1]]
    /\ (pc = "done" /\ results = <<>>) <=> ret = [k |-> "returned_none"]
    /\ (pc = "error" /\ results = <<>>) <=> ret = [k |-> "raised", err |-> err]
    /\ (pc \notin {"done", "error"} /\ results = <<>>) => ret = Pending

\* recognize_all has ended after yielding two different results
C1_TwoResults ==
    /\ pc = "done"
    /\ Len(results) >= 2
    /\ results[1] /= results[2]
    /\ ret = [k |-> "result", r |-> results[1]]

\* C2: every candidate that passes is_match after the closing pass, and every result
\* yielded, has a remaining text that is empty once punctuation is removed and
\* whitespace is trimmed.
C2_NoLeftoverText ==
    /\ pc \in {"verify", "emit"} => Strip(RemovePunctuation(h.ctxs[cand].text)) = <<>>
    /\ \A i \in 1..Len(results) : Strip(RemovePunctuation(results[i].text)) = <<>>

\* a result was yielded whose remaining text is not empty: punctuation was left over
C2_PunctuationLeft ==
    /\ pc = "done"
    /\ \E i \in 1..Len(results) :
          /\ results[i].text /= <<>>
          /\ \E j \in 1..Len(results[i].text) : results[i].text[j] \in PUNCTUATION_CHARS

\* the slot_name refers to a wildcard list of the call's settings (the calls name a
\* wildcard slot after its list)
IsWildcardSlot(slot_name) ==
    /\ slot_name \in DOMAIN MatchSettings(args).slot_lists
    /\ MatchSettings(args).slot_lists[slot_name].t = "wildcard"

\* C3: in every result, every entity captured by a wildcard slot has a text that is
\* not empty after trimming whitespace.
C3_WildcardTextNotEmpty ==
    \A i \in 1..Len(results) :
        \A j \in 1..Len(results[i].entities_list) :
            IsWildcardSlot(results[i].entities_list[j].name)
                => Strip(results[i].entities_list[j].text) /= <<>>

MissingErrors == {"MissingListError", "MissingRuleError"}

\* the errors of the references, anywhere in template e, to a list or a rule that
\* settings does not define
RECURSIVE Undefined(_, _)
Undefined(settings, e) ==
    CASE e.t = "chunk" -> {}
      [] e.t = "list" ->
           IF e.list_name \in DOMAIN settings.slot_lists THEN {} ELSE {"MissingListError"}
      [] e.t = "rule" ->
           IF e.rule_name \in DOMAIN settings.expansion_rules
           THEN Undefined(settings, settings.expansion_rules[e.rule_name])
           ELSE {"MissingRuleError"}
      [] e.t = "seq" -> UNION {Undefined(settings, e.items[i]) : i \in 1..Len(e.items)}

\* matching template e against context cid evaluates a reference to an undefined list or
\* rule: the reference is e itself, an alternative of e, or an item of a group that
\* some context left by the items before it gets to (values of text lists are chunks)
RECURSIVE Reaches(_, _, _, _)
RECURSIVE GroupReaches(_, _, _, _, _)
RECURSIVE GroupReachesNext(_, _, _, _)
Reaches(heap, settings, cid, e) ==
    CASE e.t = "chunk" -> FALSE
      [] e.t = "list" -> e.list_name \notin DOMAIN settings.slot_lists
      [] e.t = "rule" ->
           IF e.rule_name \in DOMAIN settings.expansion_rules
           THEN Reaches(heap, settings, cid, settings.expansion_rules[e.rule_name])
           ELSE TRUE
      [] e.t = "seq" ->
           IF e.type = "alternative"
           THEN \E i \in 1..Len(e.items) : Reaches(heap, settings, cid, e.items[i])
           ELSE GroupReaches(heap, settings, <<cid>>, e.items, 1)

GroupReaches(heap, settings, group_contexts, items, i) ==
    /\ i <= Len(items)
    /\ \/ \E j \in 1..Len(group_contexts) :
             Reaches(heap, settings, group_contexts[j], items[i])
       \/ GroupReachesNext(MatchGroupItem(heap, settings, group_contexts, 1, items[i]),
                           settings, items, i)

GroupReachesNext(r, settings, items, i) ==
    r.err = "none" /\ GroupReaches(r.h, settings, r.out, items, i + 1)

\* Reaches for the initial context c of a sentence
SentenceReaches(c, settings, sentence) == Reaches(c.h, settings, c.id, sentence)

\* C4 as stated: when a sentence template holds a reference to an undefined list or
\* rule, the call ends, on any text, with MissingListError / MissingRuleError, and
\* recognize raises it.
C4_AnyMentionAborts ==
    pc \in {"done", "error"} =>
        \A i \in 1..Len(args.intents.intents) :
            \A d \in 1..Len(args.intents.intents[i].data) :
                \A s \in 1..Len(args.intents.intents[i].data[d].sentences) :
                    \A e \in Undefined(LocalSettings(args, args.intents.intents[i].data[d]),
                                       args.intents.intents[i].data[d].sentences[s]) :
                        /\ pc = "error"
                        /\ err = e
                        /\ ret = [k |-> "raised", err |-> e]

\* C4: the error is raised exactly when matching evaluates the reference.  A call that
\* ends normally evaluated no reference to an undefined list or rule; a call that ends
\* with MissingListError / MissingRuleError was matching a sentence that holds such a
\* reference and got to it; recognize raises the error unless a result was yielded
\* before, which it returns.
C4_MissingRaisedWhenReached ==
    /\ pc = "done" =>
          \A i \in 1..Len(args.intents.intents) :
              \A d \in 1..Len(args.intents.intents[i].data) :
                  \A s \in 1..Len(args.intents.intents[i].data[d].sentences) :
                      ~SentenceReaches(InitialContext(EmptyHeap, text, IntentContext(args)),
                                       LocalSettings(args, args.intents.intents[i].data[d]),
                                       args.intents.intents[i].data[d].sentences[s])
    /\ (pc = "error" /\ err \in MissingErrors) =>
          /\ err \in Undefined(LocalSettings(args, CurrentData), CurrentData.sentences[si])
          /\ SentenceReaches(InitialContext(EmptyHeap, text, IntentContext(args)),
                             LocalSettings(args, CurrentData), CurrentData.sentences[si])
          /\ ret = IF results = <<>> THEN [k |-> "raised", err |-> err]
                   ELSE [k |-> "result", r |-> results[1]]

\* recognize_all yielded a result and then raised MissingListError
C4_ResultBeforeError ==
    /\ pc = "error"
    /\ err = "MissingListError"
    /\ results /= <<>>
    /\ ret = [k |-> "result", r |-> results[1]]

\* the actual value meets the expected one: membership in a non-string collection,
\* equality with a scalar
Meets(actual, expected) ==
    IF IsNonStrCollection(expected) THEN PyIn(actual, expected) ELSE actual = expected

\* the skip condition of the pre-filter as specified
SkippedByContext(intent_data, intent_context) ==
    \/ \E i \in 1..Len(intent_data.requires_context) :
          /\ intent_data.requires_context[i].v /= None
          /\ intent_data.requires_context[i].k \in DOMAIN intent_context
          /\ ~Meets(intent_context[intent_data.requires_context[i].k],
                    intent_data.requires_context[i].v)
    \/ \E i \in 1..Len(intent_data.excludes_context) :
          /\ intent_data.excludes_context[i].k \in DOMAIN intent_context
          /\ Meets(intent_context[intent_data.excludes_context[i].k],
                   intent_data.excludes_context[i].v)

\* C5: with a non-empty caller context, the pre-filter skips an intent data (goes on to
\* the next one without matching) exactly when a required key present in the caller's
\* context fails its expected value, or an excluded key is present with an excluded
\* value; the excludes check looks at the entries of excludes_context only.
C5_PreFilterSkipsExactly ==
    [][(/\ pc = "data"
        /\ ii <= Len(args.intents.intents)
        /\ di <= Len(args.intents.intents[ii].data)
        /\ DOMAIN IntentContext(args) /= {})
       => ((pc' = "data" /\ di' = di + 1)
               <=> SkippedByContext(CurrentData, IntentContext(args)))]_vars

\* every requirement holds in the final intent context
RequiresHold(requires_context, intent_context) ==
    \A i \in 1..Len(requires_context) :
        /\ requires_context[i].k \in DOMAIN intent_context
        /\ \/ requires_context[i].v = None
           \/ intent_context[requires_context[i].k] = requires_context[i].v
           \/ /\ IsNonStrCollection(requires_context[i].v)
              /\ PyIn(intent_context[requires_context[i].k], requires_context[i].v)

\* some exclusion applies to the final intent context
Excluded(excludes_context, intent_context) ==
    \E i \in 1..Len(excludes_context) :
        /\ excludes_context[i].k \in DOMAIN intent_context
        /\ \/ intent_context[excludes_context[i].k] = excludes_context[i].v
           \/ /\ IsNonStrCollection(excludes_context[i].v)
              /\ PyIn(intent_context[excludes_context[i].k], excludes_context[i].v)

\* C6: in strict mode every result satisfies the context predicates of its intent data
\* against its final intent context: each required key has a value that is accepted,
\* and no excluded key has an excluded value.
C6_StrictResultsSatisfyContext ==
    \A i \in 1..Len(results) :
        ~args.allow_unmatched_entities =>
            /\ RequiresHold(DataOf(results[i]).requires_context, results[i].context)
            /\ ~Excluded(DataOf(results[i]).excludes_context, results[i].context)

\* a strict result for an intent data with requirements and exclusions, where the
\* required value was set by the matched list value
C6_StrictResultWithPredicates ==
    /\ pc = "done"
    /\ ~args.allow_unmatched_entities
    /\ \E i \in 1..Len(results) :
          /\ DataOf(results[i]).requires_context /= <<>>
          /\ DataOf(results[i]).excludes_context /= <<>>
          /\ IntentContext(args) /= results[i].context

\* the placeholders that the requires check of a tolerant call adds for the candidate
\* cid: one closed UnmatchedTextEntity "<missing>" per requirement, in order, that is not
\* met by the intent context or by the adopted text of an UnmatchedTextEntity of that
\* name, and for which no unmatched entity of that name exists
Placeholders(heap, cid, requires_context) ==
    LET ctx == heap.ctxs[cid].intent_context
        um  == UnmatchedOf(heap, heap.ctxs[cid].unmatched_entities)
        TextsOf(key) == {j \in 1..Len(um) : um[j].kind = "text" /\ um[j].name = key}
        Adopted(key) ==
            IF TextsOf(key) = {} THEN None
            ELSE StrVal(um[CHOOSE j \in TextsOf(key) : \A l \in TextsOf(key) : j <= l].text)
        Actual(key) == IF key \in DOMAIN ctx THEN ctx[key] ELSE Adopted(key)
        Met(kv) ==
            IF kv.v = None THEN Actual(kv.k) /= None
            ELSE \/ Actual(kv.k) = kv.v
                 \/ IsNonStrCollection(kv.v) /\ PyIn(Actual(kv.k), kv.v)
        Needed(kv) == ~Met(kv) /\ ~\E j \in 1..Len(um) : um[j].name = kv.k
        needed == SelectSeq(requires_context, Needed)
    IN  [j \in 1..Len(needed) |-> UnmatchedTextEntity(needed[j].k, MISSING_ENTITY, FALSE)]

\* C7: in tolerant mode the requires check never rejects a candidate that no exclusion
\* rejects: the candidate goes on to be emitted, its entities unchanged, and its
\* unmatched entities extended by exactly the placeholders.
C7_TolerantRequiresNeverRejects ==
    [][(/\ pc = "verify"
        /\ args.allow_unmatched_entities
        /\ ~Excluded(CurrentData.excludes_context, h.ctxs[cand].intent_context))
       => /\ pc' = "emit"
          /\ cand' = cand
          /\ EntitiesOf(h', h'.ctxs[cand].entities) = EntitiesOf(h, h.ctxs[cand].entities)
          /\ UnmatchedOf(h', h'.ctxs[cand].unmatched_entities)
                = UnmatchedOf(h, h.ctxs[cand].unmatched_entities)
                    \o Placeholders(h, cand, CurrentData.requires_context)]_vars

\* a tolerant result that carries a placeholder for a required key
C7_PlaceholderEmitted ==
    /\ pc = "done"
    /\ args.allow_unmatched_entities
    /\ \E i \in 1..Len(results) :
          \E j \in 1..Len(DataOf(results[i]).requires_context) :
              \E l \in 1..Len(results[i].unmatched_entities_list) :
                  results[i].unmatched_entities_list[l]
                      = UnmatchedTextEntity(DataOf(results[i]).requires_context[j].k,
                                            MISSING_ENTITY, FALSE)

\* s is an optional '-' followed by one or more ASCII digits
IsNumeral(s) ==
    /\ s /= <<>>
    /\ IF s[1] = "-"
       THEN Len(s) > 1 /\ \A i \in 2..Len(s) : IsDigit(s[i])
       ELSE \A i \in 1..Len(s) : IsDigit(s[i])

\* the length of the numeric prefix of s: whitespace, then the longest numeral
Lexed(s) ==
    {n \in 1..Len(s) :
        /\ IsNumeral(LStrip(SubSeq(s, 1, n)))
        /\ n = Len(s) \/ ~IsDigit(s[n + 1])}

\* membership in RangeSlotList(start, stop, step) as specified
InRange(range_list, n) ==
    /\ range_list.start <= n
    /\ n <= range_list.stop
    /\ (n - range_list.start) % range_list.step = 0

\* C8: a context that a reference to a RangeSlotList yields with an entity has exactly
\* that entity; its value is the integer lexed from the head of the text (an optional
\* '-' and the digits that follow, after leading whitespace), it lies between start
\* and stop on a multiple of step from start, and the context's text is the text after
\* the numeric prefix.
C8_RangeEntityInRange ==
    pc = "matched" =>
        \A i \in 1..Len(yielded) :
            h.elists[h.ctxs[yielded[i]].entities] /= <<>> =>
                \E n \in Lexed(args.text) :
                    /\ EntitiesOf(h, h.ctxs[yielded[i]].entities)
                          = <<MatchEntity("brightness", IntVal(ParseInt(SubSeq(args.text, 1, n))),
                                          FirstToken(args.text), FALSE)>>
                    /\ InRange(args.settings.slot_lists["r"], ParseInt(SubSeq(args.text, 1, n)))
                    /\ h.ctxs[yielded[i]].text = From(args.text, n)

\* a range with a step above one yielded an entity whose value is not the start
C8_SteppedValue ==
    /\ pc = "matched"
    /\ args.settings.slot_lists["r"].step > 1
    /\ \E i \in 1..Len(yielded) :
          \E j \in 1..Len(h.elists[h.ctxs[yielded[i]].entities]) :
              h.ents[h.elists[h.ctxs[yielded[i]].entities][j]].value
                  /= IntVal(args.settings.slot_lists["r"].start)

\* C9: when the text starts with an integer outside the range, the reference yields
\* nothing in strict mode, and in tolerant mode exactly one context, with
\* UnmatchedRangeEntity(slot_name, the integer), no entity, and the text after the
\* number; "set kitchen light to 150" with brightness in 0..100 has no strict result
\* and exactly one tolerant result, which carries UnmatchedRangeEntity(brightness, 150).
C9_OutOfRange ==
    /\ pc = "matched" =>
          \A n \in Lexed(args.text) :
              ~InRange(args.settings.slot_lists["r"], ParseInt(SubSeq(args.text, 1, n))) =>
                  /\ err = "none"
                  /\ IF args.settings.allow_unmatched_entities
                     THEN /\ Len(yielded) = 1
                          /\ EntitiesOf(h, h.ctxs[yielded[1]].entities) = <<>>
                          /\ UnmatchedOf(h, h.ctxs[yielded[1]].unmatched_entities)
                                = <<UnmatchedRangeEntity("brightness",
                                                         ParseInt(SubSeq(args.text, 1, n)))>>
                          /\ h.ctxs[yielded[1]].text = From(args.text, n)
                     ELSE yielded = <<>>
    /\ (pc = "done" /\ args.text = SetText(<<"1", "5", "0">>)) =>
          IF args.allow_unmatched_entities
          THEN /\ Len(results) = 1
               /\ results[1].unmatched_entities_list = <<UnmatchedRangeEntity("brightness", 150)>>
               /\ \A j \in 1..Len(results[1].entities_list) :
                     results[1].entities_list[j].name /= "brightness"
          ELSE results = <<>>

\* the tolerant call on "set kitchen light to 150" has ended with a result
C9_TolerantResult ==
    /\ pc = "done"
    /\ args.text = SetText(<<"1", "5", "0">>)
    /\ args.allow_unmatched_entities
    /\ results /= <<>>

\* C10: for a template "A {w} B" and a text "A t B" the entity of w has text and value
\* exactly t, without the separating whitespace: "play {song} on {device}" on
\* "play hey jude on living room" gives song "hey jude" and device "living room".
C10_WildcardTextExact ==
    \A i \in 1..Len(results) :
        /\ args.intents = PlayIntents =>
              /\ \E j \in 1..Len(results[i].entities_list) :
                    /\ results[i].entities_list[j].name = "song"
                    /\ results[i].entities_list[j].text = Words.hey_jude
                    /\ results[i].entities_list[j].value = StrVal(Words.hey_jude)
              /\ \E j \in 1..Len(results[i].entities_list) :
                    /\ results[i].entities_list[j].name = "device"
                    /\ results[i].entities_list[j].value = StrVal(Words.living_room)
        /\ (args.intents = WildcardIntents /\ args \in WildcardCalls) =>
              \E j \in 1..Len(results[i].entities_list) :
                  /\ results[i].entities_list[j].name = "w"
                  /\ args.text = <<"a", " ">> \o results[i].entities_list[j].text \o <<" ", "b">>
                  /\ results[i].entities_list[j].value = StrVal(results[i].entities_list[j].text)

\* C11: for the template "a {w}", whose last node is the wildcard, and a text "a r" with
\* r not blank, every result has the remaining text empty and the one entity w, closed,
\* with text and value r trimmed; and the call yields such a result.
C11_TrailingWildcardTakesRemainder ==
    (/\ pc \notin {"start", "match", "matched"}
     /\ args.intents = TrailingIntents
     /\ StartsWith(text, <<"a", " ">>)
     /\ Strip(From(text, 2)) /= <<>>)
    => /\ \A i \in 1..Len(results) :
             /\ results[i].text = <<>>
             /\ results[i].entities_list
                   = <<[name |-> "w", value |-> StrVal(Strip(From(text, 2))),
                        text |-> Strip(From(text, 2)), is_wildcard |-> TRUE,
                        is_wildcard_open |-> FALSE]>>
       /\ pc = "done" => results /= <<>>

\* a trailing wildcard took a remainder of two words
C11_TwoWordRemainder ==
    /\ pc = "done"
    /\ args.intents = TrailingIntents
    /\ \E i \in 1..Len(results) :
          \E j \in 1..Len(results[i].entities_list) :
              \E l \in 1..Len(results[i].entities_list[j].text) :
                  results[i].entities_list[j].text[l] = " "

\* C12: the function is_match returns a context if and only if recognize_all, asked
\* about the same sentence alone, yields a result, and the context returned has the
\* entities and the unmatched entities of the first result.
C12_IsMatchAgreesWithRecognizeAll ==
    (pc = "done" /\ found /= Pending)
    => /\ found /= None <=> results /= <<>>
       /\ found /= None
            => /\ found.entities = results[1].entities_list
               /\ found.unmatched_entities = results[1].unmatched_entities_list

\* entity is the entity that lines 520-528 append for the fixed slot
IsFixedEntity(entity, slot) ==
    entity.name = slot.k /\ entity.value = slot.v /\ entity.text = <<>>

\* the entities of the list are right for the fixed slot: the slot's name is among
\* them; when one of that name was captured no fixed entity of the slot is there;
\* otherwise there is exactly one entity of that name, and no captured entity after it
FixedSlotHolds(entities_list, slot) ==
    /\ \E j \in 1..Len(entities_list) : entities_list[j].name = slot.k
    /\ IF \E j \in 1..Len(entities_list) :
             entities_list[j].name = slot.k /\ ~IsFixedEntity(entities_list[j], slot)
       THEN \A j \in 1..Len(entities_list) : ~IsFixedEntity(entities_list[j], slot)
       ELSE \A j \in 1..Len(entities_list) :
               entities_list[j].name = slot.k
                   => \A k \in (j + 1)..Len(entities_list) :
                          /\ entities_list[k].name /= slot.k
                          /\ entities_list[k].text = <<>>

\* C13: in every result, each fixed slot of the intent data appears among the entities:
\* when no entity of that name was captured, exactly one entity with the fixed value
\* and the text "" follows the captured entities; when one was captured, no fixed
\* entity of that name is added.
C13_FixedSlotsAdded ==
    \A i \in 1..Len(results) :
        \A k \in 1..Len(DataOf(results[i]).slots) :
            FixedSlotHolds(results[i].entities_list, DataOf(results[i]).slots[k])

\* where the template order puts a context with these entities: slot p before slot q
\* and the first value of the list before the second, for each entity in turn; a
\* wildcard capture by the place of its boundary
EmissionKey(entities_list) ==
    [j \in 1..Len(entities_list) |->
        IF entities_list[j].name = "w" THEN Len(entities_list[j].text)
        ELSE (IF entities_list[j].name = "p" THEN 10 ELSE 20) + entities_list[j].value.n]

\* lexicographic order of sequences of integers
RECURSIVE LexLess(_, _)
LexLess(a, b) ==
    IF a = <<>> THEN b /= <<>>
    ELSE IF b = <<>> THEN FALSE
    ELSE IF a[1] /= b[1] THEN a[1] < b[1]
    ELSE LexLess(Tail(a), Tail(b))

\* C14: results come in the order of the intents, then of the intent data, then of the
\* sentences; within a sentence, the strict matches come in the order of the template:
\* the items of an alternative in turn, a group with its leftmost item varying slowest,
\* the values of a text list as declared, the splits of a wildcard from the earliest
\* boundary to the latest.
C14_EmissionOrder ==
    args \in OrderCalls =>
        \A i \in 1..Len(results) : \A j \in (i + 1)..Len(results) :
            /\ LexLess(<<results[i].intent, results[i].intent_data, results[i].sentence>>,
                       <<results[j].intent, results[j].intent_data, results[j].sentence,
                         0>>)
            /\ (/\ results[i].intent = results[j].intent
                /\ results[i].intent_data = results[j].intent_data
                /\ results[i].sentence = results[j].sentence
                /\ results[i].unmatched_entities_list = <<>>
                /\ results[j].unmatched_entities_list = <<>>)
               => LexLess(EmissionKey(results[i].entities_list),
                          EmissionKey(results[j].entities_list))

\* the group "{x:p} {x:q}" yielded its four results, the first value of p with both
\* values of q and then the second
C14_CrossProduct ==
    /\ pc = "done"
    /\ args.intents = OneSentence(OrderTemplates.group, OrderLists, FALSE)
    /\ Len(results) = 4
    /\ [i \in 1..4 |-> EmissionKey(results[i].entities_list)]
          = <<<<11, 21>>, <<11, 22>>, <<12, 21>>, <<12, 22>>>>

\* the names, values and texts of a list of entities
NamedValues(entities_list) ==
    [j \in 1..Len(entities_list) |->
        [name |-> entities_list[j].name, value |-> entities_list[j].value,
         text |-> entities_list[j].text]]

\* what can be observed through context cid of the heap
Observable(heap, cid) ==
    [entities |-> NamedValues(EntitiesOf(heap, heap.ctxs[cid].entities)),
     unmatched_entities |-> UnmatchedOf(heap, heap.ctxs[cid].unmatched_entities),
     intent_context |-> heap.ctxs[cid].intent_context]

\* C15: contexts are isolated from the branches explored later. No step changes the
\* entities (names, values, texts), the unmatched entities or the intent context
\* observable through the context of a result already yielded; and the steps of the
\* driver on a candidate (closing pass, <missing> insertion, fixed slots) change them
\* for no context but the candidate.
C15_EmittedContextsIsolated ==
    [][/\ \A i \in 1..Len(results) :
             Observable(h', results[i].ctx) = Observable(h, results[i].ctx)
       /\ pc \in {"close", "verify", "emit"}
            => \A cid \in 1..Len(h.ctxs) :
                   cid /= cand => Observable(h', cid) = Observable(h, cid)]_vars

\* C16: for the template {t:name} alone, without context predicates, in tolerant mode:
\* when a value of the list matches the text, only results with the matched entity are
\* yielded, none with an unmatched entity; when no value matches, exactly one result
\* is yielded, with the one unmatched entity of the slot.
C16_MismatchOnlyWhenNoValueMatches ==
    (/\ pc = "done"
     /\ args.intents = ContextIntents(<<>>, <<>>)
     /\ args.allow_unmatched_entities)
    => IF \E i \in 1..Len(results) : results[i].entities_list /= <<>>
       THEN \A i \in 1..Len(results) : results[i].unmatched_entities_list = <<>>
       ELSE /\ Len(results) = 1
            /\ Len(results[1].unmatched_entities_list) = 1
            /\ results[1].unmatched_entities_list[1].name = "name"

\* C17: the text of an entity captured from a range list or a text list is exactly
\* what the capture consumed. For a reference to a range list matched alone, the text
\* before the capture is the entity's text followed by the text that remains; for the
\* template "({x:p}|{x:q})", whose values are the literal "a", the same holds of every
\* result and the entity's text is "a".
C17_EntityTextIsConsumedText ==
    /\ pc = "matched"
         => \A i \in 1..Len(yielded) :
                \A j \in 1..Len(h.elists[h.ctxs[yielded[i]].entities]) :
                    args.text = h.ents[h.elists[h.ctxs[yielded[i]].entities][j]].text
                                    \o h.ctxs[yielded[i]].text
    /\ (/\ args \in OrderCalls
        /\ args.intents = OneSentence(OrderTemplates.alternative, OrderLists, FALSE))
         => \A i \in 1..Len(results) :
                \A j \in 1..Len(results[i].entities_list) :
                    /\ text = results[i].entities_list[j].text \o results[i].text
                    /\ results[i].entities_list[j].text = <<"a">>

\* C18 as stated: a template that is an empty alternative yields no result for an input
\* that is not empty after trimming, an input of punctuation included.
C18_EmptyTemplateOnlyEmptyInput ==
    (pc = "done" /\ args \in EmptyCalls /\ Strip(args.text) /= <<>>) => results = <<>>

\* C18: a template that is an empty alternative yields a result exactly for the inputs
\* that hold nothing but whitespace and punctuation: the empty input and the inputs
\* made of punctuation are recognized, with no entity; any other input yields nothing.
C18_EmptyTemplateIgnoresPunctuation ==
    (pc = "done" /\ args \in EmptyCalls)
    => /\ results /= <<>>
            <=> \A i \in 1..Len(args.text) :
                    args.text[i] \in WHITESPACE_CHARS \cup PUNCTUATION_CHARS
       /\ \A i \in 1..Len(results) :
              results[i].entities_list = <<>> /\ results[i].unmatched_entities_list = <<>>

\* an empty template recognized an input made of punctuation
C18_PunctuationRecognized ==
    /\ pc = "done"
    /\ args \in EmptyCalls
    /\ args.text = <<".", " ", ".">>
    /\ results /= <<>>

\* C19: an entity captured by a reference to a wildcard list is marked is_wildcard in
\* every context that match_expression hands to the driver and in every result, and
\* in a result it is closed.
C19_WildcardStaysWildcard ==
    args \in WildcardCalls \cup TrailingCalls \cup PlayCalls
    => /\ pc \in {"close", "verify", "emit"}
            => \A j \in 1..Len(h.elists[h.ctxs[cand].entities]) :
                   IsWildcardSlot(h.ents[h.elists[h.ctxs[cand].entities][j]].name)
                       => h.ents[h.elists[h.ctxs[cand].entities][j]].is_wildcard
       /\ \A i \in 1..Len(results) :
              \A j \in 1..Len(results[i].entities_list) :
                  IsWildcardSlot(results[i].entities_list[j].name)
                      => /\ results[i].entities_list[j].is_wildcard
                         /\ ~results[i].entities_list[j].is_wildcard_open

\* C20: when a strict call is repeated in tolerant mode, every result of the strict
\* call is among the results of the tolerant call, with the same intent, intent data
\* and entities (names, values, texts) and with no unmatched entities.
C20_TolerantKeepsStrictResults ==
    (pc = "done" /\ strict /= Pending)
    => \A i \in 1..Len(strict.results) :
           \E j \in 1..Len(results) :
               /\ results[j].intent = strict.results[i].intent
               /\ results[j].intent_data = strict.results[i].intent_data
               /\ NamedValues(results[j].entities_list)
                     = NamedValues(strict.results[i].entities_list)
               /\ results[j].unmatched_entities_list = <<>>

\* the enumeration under a driver that keeps taking the next step until the call has
\* returned or raised: weak fairness of the steps of a call that has not ended, which
\* always has a next step, written without ENABLED
FairSpec ==
    Spec /\ ([]<><<TRUE>>_vars \/ []<>(pc \in {"done", "error", "matched", "is_match_error"}))

\* the last entity of the context when the open-wildcard branch (lines 688-706) made it:
\* an entity of a wildcard slot, not marked is_wildcard, whose value is its text; else 0
LastCapture(heap, context) ==
    LET l == heap.elists[context.entities]
    IN  IF l = <<>> THEN 0
        ELSE IF /\ IsWildcardSlot(heap.ents[l[Len(l)]].name)
                /\ ~heap.ents[l[Len(l)]].is_wildcard
                /\ heap.ents[l[Len(l)]].value = StrVal(heap.ents[l[Len(l)]].text)
             THEN l[Len(l)]
             ELSE 0

\* C21: the enumeration ends, and every re-match of the open-wildcard branch runs on a
\* strictly shorter text and cannot enter the branch again for its wildcard: a context
\* whose last entity the branch made holds a capture that is not empty, the capture and
\* the remaining text fit in the input, and the context has no open wildcard; a context
\* whose open wildcard has a blank text, the condition of the branch, has captured
\* nothing.
C21_WildcardSplitsTerminate ==
    /\ <>[](pc \in {"done", "error", "matched", "is_match_error"})
    /\ []("intents" \in DOMAIN args
           => \A i \in 1..Len(h.ctxs) :
                  /\ LastCapture(h, h.ctxs[i]) /= 0
                       => /\ h.ents[LastCapture(h, h.ctxs[i])].text /= <<>>
                          /\ Len(h.ents[LastCapture(h, h.ctxs[i])].text)
                                 + Len(h.ctxs[i].text) <= Len(text)
                          /\ get_open_wildcard(h, h.ctxs[i]) = 0
                  /\ (/\ get_open_wildcard(h, h.ctxs[i]) /= 0
                      /\ Strip(h.ents[get_open_wildcard(h, h.ctxs[i])].text) = <<>>)
                       => h.ents[get_open_wildcard(h, h.ctxs[i])].text = <<>>)

\* "{w}{v} b" on "b b b" ended after the branch split the text at the second and at the
\* third "b"
C21_TwoSplitsOfAdjacentWildcards ==
    /\ pc = "done"
    /\ args \in AdjacentCalls
    /\ args.text = <<"b", " ", "b", " ", "b">>
    /\ \E i, j \in 1..Len(h.ctxs) :
           /\ LastCapture(h, h.ctxs[i]) /= 0
           /\ LastCapture(h, h.ctxs[j]) /= 0
           /\ h.ents[LastCapture(h, h.ctxs[i])].name = "v"
           /\ h.ents[LastCapture(h, h.ctxs[i])].text = <<"b", " ">>
           /\ h.ents[LastCapture(h, h.ctxs[j])].text = <<"b", " ", "b", " ">>
           /\ Len(h.elists[h.ctxs[i].entities]) = 2

====
